---- MODULE Spec2Model ----
(***************************************************************************)
(* Eco5 backend (src/backend/server.ts, src/backend/schema.ts): the auth   *)
(* guard, the request handlers and the relational store they act on.       *)
(*                                                                         *)
(* A string is a sequence of one-character strings, so that toLowerCase()  *)
(* and trim() are computed character by character.  A JSON value is a      *)
(* tagged tuple: <<"str", s>>, <<"num", n>>, <<"null">>; a missing field   *)
(* (undefined) is a field that is not in the DOMAIN of the body.           *)
(* Every request runs as a task that is suspended at each await            *)
(* (pool.connect(), client.query()); one action of the model is the code   *)
(* between two suspension points.                                          *)
(***************************************************************************)
EXTENDS Integers, Sequences, FiniteSets, TLC

VARIABLES
    users,                \* table users
    user_dashboards,      \* table user_dashboards
    impact_calculators,   \* table impact_calculators
    eco_community_forum,  \* table eco_community_forum
    events,               \* table events
    resource_library,     \* table resource_library
    alerts,               \* table alerts
    reqs,                 \* the request tasks, by slot
    uuids,                \* how many randomUUID() values have been drawn
    now,                  \* the clock, in days
    profile               \* which clients the environment is made of

tables == <<users, user_dashboards, impact_calculators, eco_community_forum,
            events, resource_library, alerts>>
vars == <<users, user_dashboards, impact_calculators, eco_community_forum,
          events, resource_library, alerts, reqs, uuids, now, profile>>

(***************************************************************************)
(* Bounds of the model.                                                    *)
(***************************************************************************)
\* request tasks that may be in flight together (interleaving profiles)
MaxInFlight == 2
\* randomUUID() values drawn in one behaviour
MaxUuid == 3
\* days the clock may advance (clock profile)
MaxNow == 8
\* largest size of the pool when the pool is made small (pool profile)
MaxPool == 2

(***************************************************************************)
(* JSON values and strings.                                                *)
(***************************************************************************)
Str(s) == <<"str", s>>
Num(n) == <<"num", n>>
Null == <<"null">>
IsStr(v) == v[1] = "str"
IsNum(v) == v[1] = "num"
\* a NUMERIC column's value, which pg hands to the code as text; numbers are
\* counted in tenths
Numeric(n) == <<"numeric", n>>
\* parseFloat of a column's value (NaN is serialised as null)
ParseFloat(v) == IF v[1] = "numeric" THEN Num(v[2]) ELSE Null

\* JavaScript truthiness of a value that is present: "", 0 and null are falsy.
Truthy(v) ==
    CASE v[1] = "str" -> v[2] /= << >>
      [] v[1] = "num" -> v[2] /= 0
      [] v[1] = "date" -> TRUE
      [] OTHER -> FALSE

Has(body, f) == f \in DOMAIN body
\* `if (validatedData.f)`: present and truthy
Given(body, f) == Has(body, f) /\ Truthy(body[f])

LowerChar(c) ==
    CASE c = "J" -> "j"
      [] c = "K" -> "k"
      [] c = "N" -> "n"
      [] c = "X" -> "x"
      [] OTHER -> c

\* String.prototype.toLowerCase
ToLowerCase(s) == [i \in 1..Len(s) |-> LowerChar(s[i])]

IsSpace(c) == c = " "

RECURSIVE TrimStart(_)
TrimStart(s) ==
    IF s = << >> THEN s
    ELSE IF IsSpace(Head(s)) THEN TrimStart(Tail(s)) ELSE s

RECURSIVE TrimEnd(_)
TrimEnd(s) ==
    IF s = << >> THEN s
    ELSE IF IsSpace(s[Len(s)]) THEN TrimEnd(SubSeq(s, 1, Len(s) - 1)) ELSE s

\* String.prototype.trim
Trim(s) == TrimEnd(TrimStart(s))

\* the characters of the model in the order the database compares them
Alphabet ==
    << " ", "0", "1", "2", "3", "4", "5", "6", "7", "8", "9", "@",
       "J", "K", "N", "T", "X", "Z",
       "a", "b", "c", "d", "e", "f", "g", "h", "i", "j", "k", "l", "m",
       "n", "o", "p", "q", "r", "s", "t", "u", "v", "w", "x", "y", "z" >>
Rank(c) == CHOOSE k \in 1..Len(Alphabet) : Alphabet[k] = c

\* s < t on strings
RECURSIVE Precedes(_, _)
Precedes(s, t) ==
    IF t = << >> THEN FALSE
    ELSE IF s = << >> THEN TRUE
    ELSE IF Head(s) = Head(t) THEN Precedes(Tail(s), Tail(t))
    ELSE Rank(Head(s)) < Rank(Head(t))

\* zod's .email(): one "@" with text on both sides, and no white space.
IsEmail(s) ==
    /\ \A i \in 1..Len(s) : ~IsSpace(s[i])
    /\ Cardinality({i \in 1..Len(s) : s[i] = "@"}) = 1
    /\ Len(s) >= 3
    /\ s[1] /= "@"
    /\ s[Len(s)] /= "@"

\* new Date(x).toISOString() of a date string: the date-only form gains its
\* time part, the full form is unchanged; other strings are no dates.
IsIso(s) == Len(s) >= 3 /\ s[Len(s)] = "Z" /\ s[Len(s) - 1] = "T" /\ s[1] = "d"
IsDateOnly(s) == Len(s) >= 1 /\ s[1] = "d" /\ \A i \in 1..Len(s) : s[i] \notin {"T", "Z", " "}
\* (for C13) a date stored as the string that was submitted
AsSubmitted(s) == s
ToISOString(s) == IF IsIso(s) THEN s ELSE s \o <<"T", "Z">>
Epoch == <<"d", "0", "T", "Z">>

\* new Date().toISOString() at clock value t
ClockDigits == <<"0", "1", "2", "3", "4", "5", "6", "7", "8", "9">>
NowISOString(t) == <<"c", ClockDigits[(t % 10) + 1], "T", "Z">>

(***************************************************************************)
(* Validation (schema.ts).  A schema maps each field to its type; parse    *)
(* keeps the recognised fields and fails if one of them is not acceptable. *)
(***************************************************************************)
Field(type, min, optional, nullable) ==
    [type |-> type, min |-> min, optional |-> optional, nullable |-> nullable]

createUserInputSchema ==
    [email |-> Field("email", 0, FALSE, FALSE),
     name |-> Field("string", 1, FALSE, FALSE),
     password_hash |-> Field("string", 1, FALSE, FALSE)]

updateUserInputSchema ==
    [id |-> Field("string", 0, FALSE, FALSE),
     email |-> Field("email", 0, TRUE, FALSE),
     name |-> Field("string", 1, TRUE, FALSE),
     password_hash |-> Field("string", 1, TRUE, FALSE)]

updateUserDashboardInputSchema ==
    [user_id |-> Field("string", 0, FALSE, FALSE),
     carbon_footprint |-> Field("number", 0, TRUE, FALSE),
     historical_data |-> Field("string", 0, TRUE, TRUE),
     daily_tips |-> Field("string", 0, TRUE, TRUE),
     challenges |-> Field("string", 0, TRUE, TRUE)]

updateImpactCalculatorInputSchema ==
    [id |-> Field("string", 0, FALSE, FALSE),
     user_id |-> Field("string", 0, TRUE, FALSE),
     travel_habits |-> Field("string", 0, TRUE, TRUE),
     energy_consumption |-> Field("string", 0, TRUE, TRUE),
     waste_management |-> Field("string", 0, TRUE, TRUE)]

createEcoCommunityForumInputSchema ==
    [user_id |-> Field("string", 0, FALSE, FALSE),
     thread_title |-> Field("string", 1, FALSE, FALSE),
     content |-> Field("string", 1, FALSE, FALSE),
     created_at |-> Field("date", 0, FALSE, FALSE)]

updateEcoCommunityForumInputSchema ==
    [id |-> Field("string", 0, FALSE, FALSE),
     user_id |-> Field("string", 0, TRUE, FALSE),
     thread_title |-> Field("string", 1, TRUE, FALSE),
     content |-> Field("string", 1, TRUE, FALSE),
     created_at |-> Field("date", 0, TRUE, FALSE)]

createEventInputSchema ==
    [event_name |-> Field("string", 0, FALSE, FALSE),
     event_date |-> Field("date", 0, FALSE, FALSE),
     location |-> Field("string", 0, FALSE, TRUE),
     organizer_id |-> Field("string", 0, FALSE, FALSE)]

updateEventInputSchema ==
    [id |-> Field("string", 0, FALSE, FALSE),
     event_name |-> Field("string", 0, TRUE, FALSE),
     event_date |-> Field("date", 0, TRUE, FALSE),
     location |-> Field("string", 0, TRUE, TRUE),
     organizer_id |-> Field("string", 0, TRUE, FALSE)]

createResourceLibraryInputSchema ==
    [content_type |-> Field("string", 0, FALSE, FALSE),
     title |-> Field("string", 0, FALSE, FALSE),
     description |-> Field("string", 0, FALSE, TRUE),
     content_url |-> Field("string", 0, FALSE, TRUE),
     author_id |-> Field("string", 0, FALSE, FALSE)]

updateResourceLibraryInputSchema ==
    [id |-> Field("string", 0, FALSE, FALSE),
     content_type |-> Field("string", 0, TRUE, FALSE),
     title |-> Field("string", 0, TRUE, FALSE),
     description |-> Field("string", 0, TRUE, TRUE),
     content_url |-> Field("string", 0, TRUE, TRUE),
     author_id |-> Field("string", 0, TRUE, FALSE)]

createAlertInputSchema ==
    [user_id |-> Field("string", 0, FALSE, FALSE),
     alert_type |-> Field("string", 0, FALSE, FALSE),
     message |-> Field("string", 0, FALSE, FALSE),
     created_at |-> Field("date", 0, FALSE, FALSE)]

updateAlertInputSchema ==
    [id |-> Field("string", 0, FALSE, FALSE),
     user_id |-> Field("string", 0, TRUE, FALSE),
     alert_type |-> Field("string", 0, TRUE, FALSE),
     message |-> Field("string", 0, TRUE, FALSE),
     created_at |-> Field("date", 0, TRUE, FALSE)]

\* z.coerce.date() accepts what new Date(x) turns into a valid date: a date
\* string, or null (the epoch); undefined gives an invalid date.
DateOk(v) ==
    \/ v = Null
    \/ IsStr(v) /\ (IsIso(v[2]) \/ IsDateOnly(v[2]))
    \/ IsNum(v)

CoerceDate(v) ==
    IF IsStr(v) THEN <<"date", ToISOString(v[2])>> ELSE <<"date", Epoch>>

\* one field of a zod object against the body
FieldOk(spec, body, f) ==
    IF ~Has(body, f) THEN spec.optional
    ELSE IF spec.nullable /\ body[f] = Null THEN TRUE
    ELSE CASE spec.type = "string" -> IsStr(body[f]) /\ Len(body[f][2]) >= spec.min
           [] spec.type = "email" -> IsStr(body[f]) /\ IsEmail(body[f][2])
           [] spec.type = "number" -> IsNum(body[f])
           [] spec.type = "date" -> DateOk(body[f])
           [] OTHER -> FALSE

\* schema.parse(body) does not throw a ZodError
ParseOk(schema, body) == \A f \in DOMAIN schema : FieldOk(schema[f], body, f)

\* the value schema.parse(body) returns: unknown keys are stripped, dates coerced
Parse(schema, body) ==
    [f \in (DOMAIN schema) \cap (DOMAIN body) |->
        IF schema[f].type = "date" /\ ~(schema[f].nullable /\ body[f] = Null)
        THEN CoerceDate(body[f])
        ELSE body[f]]

(***************************************************************************)
(* The store (schema.ts, the SQL part): rows are records of JSON values.   *)
(***************************************************************************)
john == <<"j", "@", "x">>
jane == <<"k", "@", "x">>
user1 == <<"user1">>
user2 == <<"user2">>

SeedUsers ==
    {[id |-> Str(user1), email |-> Str(john), name |-> Str(<<"J", "d">>),
      created_at |-> Str(<<"d", "1", "T", "Z">>), password_hash |-> Str(<<"p", "1">>)],
     [id |-> Str(user2), email |-> Str(jane), name |-> Str(<<"K", "s">>),
      created_at |-> Str(<<"d", "1", "T", "Z">>), password_hash |-> Str(<<"p", "2">>)]}

SeedDashboards ==
    {[user_id |-> Str(user1), carbon_footprint |-> Numeric(425), historical_data |-> Str(<<"h", "1">>),
      daily_tips |-> Str(<<"t", "1">>), challenges |-> Str(<<"c", "1">>)],
     [user_id |-> Str(user2), carbon_footprint |-> Numeric(387), historical_data |-> Str(<<"h", "2">>),
      daily_tips |-> Str(<<"t", "2">>), challenges |-> Str(<<"c", "2">>)]}

SeedCalculators ==
    {[id |-> Str(<<"calculator1">>), user_id |-> Str(user1), travel_habits |-> Str(<<"c", "a", "r">>),
      energy_consumption |-> Str(<<"h", "i">>), waste_management |-> Str(<<"r", "e">>)],
     [id |-> Str(<<"calculator2">>), user_id |-> Str(user2), travel_habits |-> Str(<<"b", "u", "s">>),
      energy_consumption |-> Str(<<"m", "e">>), waste_management |-> Str(<<"c", "o">>)]}

SeedForum ==
    {[id |-> Str(<<"thread1">>), user_id |-> Str(user1), thread_title |-> Str(<<"s", "t">>),
      content |-> Str(<<"c", "1">>), created_at |-> Str(<<"d", "2", "T", "Z">>)],
     [id |-> Str(<<"thread2">>), user_id |-> Str(user2), thread_title |-> Str(<<"e", "t">>),
      content |-> Str(<<"c", "2">>), created_at |-> Str(<<"d", "3", "T", "Z">>)]}

SeedEvents ==
    {[id |-> Str(<<"event1">>), event_name |-> Str(<<"e", "d">>), event_date |-> Str(<<"d", "4">>),
      location |-> Str(<<"c", "p">>), organizer_id |-> Str(user1)],
     [id |-> Str(<<"event2">>), event_name |-> Str(<<"r", "w">>), event_date |-> Str(<<"d", "5">>),
      location |-> Str(<<"c", "c">>), organizer_id |-> Str(user2)]}

SeedResources ==
    {[id |-> Str(<<"resource1">>), content_type |-> Str(<<"v">>), title |-> Str(<<"h", "r">>),
      description |-> Str(<<"v", "t">>), content_url |-> Str(<<"u", "1">>), author_id |-> Str(user1)],
     [id |-> Str(<<"resource2">>), content_type |-> Str(<<"a">>), title |-> Str(<<"s", "l">>),
      description |-> Str(<<"a", "s">>), content_url |-> Str(<<"u", "2">>), author_id |-> Str(user2)]}

SeedAlerts ==
    {[id |-> Str(<<"alert1">>), user_id |-> Str(user1), alert_type |-> Str(<<"r">>),
      message |-> Str(<<"m", "1">>), created_at |-> Str(<<"d", "6", "T", "Z">>)],
     [id |-> Str(<<"alert2">>), user_id |-> Str(user2), alert_type |-> Str(<<"a">>),
      message |-> Str(<<"m", "2">>), created_at |-> Str(<<"d", "7", "T", "Z">>)]}

\* the store as one value, for the handlers
DB ==
    [users |-> users, user_dashboards |-> user_dashboards,
     impact_calculators |-> impact_calculators,
     eco_community_forum |-> eco_community_forum, events |-> events,
     resource_library |-> resource_library, alerts |-> alerts]

\* NOT NULL columns of each table
NotNullColumns(table) ==
    CASE table = "users" -> {"id", "email", "name", "created_at", "password_hash"}
      [] table = "user_dashboards" -> {"user_id", "carbon_footprint"}
      [] table = "impact_calculators" -> {"id", "user_id"}
      [] table = "eco_community_forum" -> {"id", "user_id", "thread_title", "content", "created_at"}
      [] table = "events" -> {"id", "event_name", "event_date", "organizer_id"}
      [] table = "resource_library" -> {"id", "content_type", "title", "author_id"}
      [] table = "alerts" -> {"id", "user_id", "alert_type", "message", "created_at"}

\* the PRIMARY KEY column of each table
PrimaryKey(table) == IF table = "user_dashboards" THEN "user_id" ELSE "id"

\* the column that REFERENCES users(id); "" for users itself
ForeignKey(table) ==
    CASE table = "users" -> ""
      [] table = "events" -> "organizer_id"
      [] table = "resource_library" -> "author_id"
      [] OTHER -> "user_id"

\* the constraints of CREATE TABLE on a table's rows, given the users rows
ConstraintsOk(table, rows, userRows) ==
    /\ \A r \in rows : \A c \in NotNullColumns(table) : r[c] /= Null
    /\ \A r1, r2 \in rows : r1[PrimaryKey(table)] = r2[PrimaryKey(table)] => r1 = r2
    /\ table = "users" => \A r1, r2 \in rows : r1.email = r2.email => r1 = r2
    /\ ForeignKey(table) /= "" =>
          \A r \in rows : \E u \in userRows : u.id = r[ForeignKey(table)]

\* INSERT INTO table VALUES row: the new store, or Failed when a constraint
\* is violated (the statement throws and changes nothing)
InsertOk(db, table, row) ==
    ConstraintsOk(table, db[table] \cup {row},
                  IF table = "users" THEN db.users \cup {row} ELSE db.users)
    /\ row \notin db[table]
Insert(db, table, row) == [db EXCEPT ![table] = @ \cup {row}]

\* UPDATE table SET set WHERE key = value: the rows after the statement
Updated(row, set) == [c \in DOMAIN row |-> IF c \in DOMAIN set THEN set[c] ELSE row[c]]
UpdateRows(rows, key, value, set) ==
    {IF r[key] = value THEN Updated(r, set) ELSE r : r \in rows}
UpdateOk(db, table, key, value, set) ==
    ConstraintsOk(table, UpdateRows(db[table], key, value, set),
                  IF table = "users" THEN UpdateRows(db.users, key, value, set) ELSE db.users)
    /\ Cardinality(UpdateRows(db[table], key, value, set)) = Cardinality(db[table])
Update(db, table, key, value, set) ==
    [db EXCEPT ![table] = UpdateRows(@, key, value, set)]

\* SELECT ... WHERE key = value
Select(rows, key, value) == {r \in rows : r[key] = value}

\* the columns a SELECT id, email, name, created_at / RETURNING list keeps
Project(row, columns) == [c \in columns |-> row[c]]
PublicUserColumns == {"id", "email", "name", "created_at"}

\* the rows of a result in some order
RECURSIVE Enumerated(_)
Enumerated(rows) ==
    IF rows = {} THEN << >>
    ELSE LET x == CHOOSE x \in rows : TRUE IN <<x>> \o Enumerated(rows \ {x})

\* ORDER BY column direction: rows with equal keys come in the order the
\* database happens to produce
OrderBy(rows, column, direction) ==
    SortSeq(Enumerated(rows),
            LAMBDA a, b : IF direction = "ASC"
                          THEN Precedes(a[column][2], b[column][2])
                          ELSE Precedes(b[column][2], a[column][2]))

\* result.rows[0]
RowOf(rows) == CHOOSE r \in rows : TRUE

(***************************************************************************)
(* Tokens (jsonwebtoken as it is used in server.ts).                       *)
(***************************************************************************)
JWT_SECRET == "eco5-secret-key"
\* expiresIn: '7d', in days
ExpiresIn == 7

\* (for C22) a token signed without expiresIn
SignForever(user_id, email, t) ==
    [user_id |-> user_id, email |-> email, iat |-> t, exp |-> t + 100 * ExpiresIn,
     sig |-> JWT_SECRET]
\* jwt.sign({user_id, email}, JWT_SECRET, {expiresIn: '7d'}) at clock value t
Sign(user_id, email, t) ==
    [user_id |-> user_id, email |-> email, iat |-> t, exp |-> t + ExpiresIn,
     sig |-> JWT_SECRET]

\* (for C2) a verification that checks the signature and not the expiry
VerifyIgnoringExpiry(token, t) == token.sig = JWT_SECRET

\* jwt.verify(token, JWT_SECRET) returns the payload instead of throwing
Verify(token, t) == token.sig = JWT_SECRET /\ t < token.exp

NoToken == [user_id |-> Null, email |-> Null, iat |-> 0, exp |-> 0, sig |-> ""]

\* the Authorization header: parts is how many words it has (0: no header);
\* authHeader && authHeader.split(' ')[1] is the second word
NoAuthorization == [parts |-> 0, token |-> NoToken]
Bearer(token) == [parts |-> 2, token |-> token]
HasToken(auth) == auth.parts >= 2

(***************************************************************************)
(* Responses and request tasks.                                            *)
(***************************************************************************)
EmptyObject == [f \in {} |-> Null]
\* process.env.NODE_ENV: the clients of kind "faults" meet the server in
\* either mode, all others in production
NODE_ENV ==
    IF profile.kind = "faults" /\ profile.family = "development" THEN "development"
    ELSE "production"

\* res.status(status).json(data)
Json(status, data) ==
    [status |-> status, error |-> FALSE, error_code |-> "", message |-> "",
     details |-> FALSE, timestamp |-> << >>, data |-> data]

\* createErrorResponse(message, error, errorCode) sent with a status at clock
\* value t; thrown says whether an error object was passed
createErrorResponse(status, message, thrown, errorCode, t) ==
    [status |-> status, error |-> TRUE, error_code |-> errorCode, message |-> message,
     details |-> (thrown /\ NODE_ENV = "development"),
     timestamp |-> NowISOString(t), data |-> EmptyObject]

\* the property names of the JSON body of a response: those of the object
\* createErrorResponse builds, or those of the resource
BodyProperties(res) ==
    IF res.error
    THEN {"success", "message", "timestamp"}
            \cup (IF res.error_code /= "" THEN {"error_code"} ELSE {})
            \cup (IF res.details THEN {"details"} ELSE {})
    ELSE IF res.data = << >> THEN {} ELSE DOMAIN res.data

NoResponse == Json(0, EmptyObject)
NoUser == [c \in PublicUserColumns |-> Null]

\* the values randomUUID() returns, in the order they are drawn
UuidPool == << <<"uuid1">>, <<"uuid2">>, <<"uuid3">>, <<"uuid4">>, <<"uuid5">> >>

IdleRequest ==
    [pc |-> "idle", method |-> "", path |-> << >>, auth |-> NoAuthorization,
     body |-> EmptyObject, query |-> EmptyObject, handler |-> "", param |-> Null, user |-> NoUser,
     stage |-> << >>, step |-> 0, gconn |-> FALSE, hconn |-> FALSE,
     entered |-> FALSE, queries |-> 0, data |-> EmptyObject,
     local |-> EmptyObject, res |-> NoResponse]

\* (for C19) a finally block that keeps the connection
Leak(r) == r
\* `finally { client.release() }` of a handler
release(r) == [r EXCEPT !.hconn = FALSE]
\* the task's response is sent, and the finally block has run
Respond(r, res) == release([r EXCEPT !.pc = "done", !.res = res])
\* the task awaits pool.connect() of its handler
AwaitConnect(r) == [r EXCEPT !.pc = "h_connect"]
\* the task awaits its next client.query()
AwaitQuery(r, step) == [r EXCEPT !.pc = "h_query", !.step = step]
\* one more statement of the handler has run on the store
Ran(r) == [r EXCEPT !.queries = @ + 1]

InternalServerError(r, t) ==
    Respond(r, createErrorResponse(500, "Internal server error", TRUE, "INTERNAL_SERVER_ERROR", t))
\* (for C21) a ZodError answered like any other error
UncaughtZodError(r, t) ==
    Respond(r, createErrorResponse(500, "Internal server error", TRUE, "INTERNAL_SERVER_ERROR", t))
\* the catch of a ZodError
ValidationError(r, t) ==
    Respond(r, createErrorResponse(400, "Invalid input data", TRUE, "VALIDATION_ERROR", t))

(***************************************************************************)
(* Routes, in the order server.ts registers them: Express hands a request  *)
(* to the first route whose method and pattern match.                      *)
(***************************************************************************)
Route(method, pattern, guard, handler) ==
    [method |-> method, pattern |-> pattern, guard |-> guard, handler |-> handler]

registered ==
    << Route("POST", <<"api", "auth", "register">>, FALSE, "register"),
       Route("POST", <<"api", "auth", "login">>, FALSE, "login"),
       Route("GET", <<"api", "users", ":user_id">>, TRUE, "getUser"),
       Route("PUT", <<"api", "users", ":user_id">>, TRUE, "updateUser"),
       Route("GET", <<"api", "users", "search">>, TRUE, "searchUsers"),
       Route("GET", <<"api", "dashboard", ":user_id">>, TRUE, "getDashboard"),
       Route("PATCH", <<"api", "dashboard", ":user_id">>, TRUE, "updateDashboard"),
       Route("GET", <<"api", "impact-calculator", ":user_id">>, TRUE, "getImpactCalculator"),
       Route("PATCH", <<"api", "impact-calculator", ":user_id">>, TRUE, "updateImpactCalculator"),
       Route("GET", <<"api", "community-forum">>, TRUE, "getForumThreads"),
       Route("POST", <<"api", "community-forum">>, TRUE, "createForumThread"),
       Route("PATCH", <<"api", "community-forum", ":id">>, TRUE, "updateForumThread"),
       Route("GET", <<"api", "events">>, TRUE, "getEvents"),
       Route("POST", <<"api", "events">>, TRUE, "createEvent"),
       Route("PATCH", <<"api", "events", ":id">>, TRUE, "updateEvent"),
       Route("GET", <<"api", "resource-library">>, TRUE, "getResources"),
       Route("POST", <<"api", "resource-library">>, TRUE, "createResource"),
       Route("PATCH", <<"api", "resource-library", ":id">>, TRUE, "updateResource"),
       Route("GET", <<"api", "alerts", ":user_id">>, TRUE, "getAlerts"),
       Route("POST", <<"api", "alerts", ":user_id">>, TRUE, "createAlert"),
       Route("PATCH", <<"api", "alerts", ":id">>, TRUE, "updateAlert"),
       Route("GET", <<"api", "health">>, FALSE, "health") >>

\* (for C3) the same table with PATCH /api/events/:id registered without the guard
routesUnguardedUpdate ==
    [k \in DOMAIN registered |->
        IF registered[k].handler = "updateEvent"
        THEN [registered[k] EXCEPT !.guard = FALSE] ELSE registered[k]]

\* the router's table
routes == registered

IsParam(segment) == segment \in {":user_id", ":id"}

Matches(route, method, path) ==
    /\ route.method = method
    /\ Len(route.pattern) = Len(path)
    /\ \A k \in 1..Len(path) : IsParam(route.pattern[k]) \/ route.pattern[k] = path[k]

\* the index of the route Express dispatches to; 0 when no route matches
Dispatch(method, path) ==
    IF \E k \in 1..Len(routes) : Matches(routes[k], method, path)
    THEN CHOOSE k \in 1..Len(routes) :
            /\ Matches(routes[k], method, path)
            /\ \A j \in 1..(k - 1) : ~Matches(routes[j], method, path)
    ELSE 0

\* req.params of the matched route: its one parameter, as a string value
ParamOf(route, path) ==
    IF \E k \in 1..Len(path) : IsParam(route.pattern[k])
    THEN Str(<<path[CHOOSE k \in 1..Len(path) : IsParam(route.pattern[k])]>>)
    ELSE Null

(***************************************************************************)
(* The handlers.  Each takes the task r, the store db, the clock value t   *)
(* and the value u the next randomUUID() call returns, and gives the task  *)
(* and the store after the code that runs up to the next suspension point: *)
(* r.pc = "enter" is the code before the handler's pool.connect(),         *)
(* "h_connect" the code that runs when the connection arrives, and         *)
(* "h_query" with r.step = k the handler's k-th statement and what follows *)
(* its result.  drew says whether randomUUID() was called.                 *)
(***************************************************************************)
Step(r, db) == [r |-> r, db |-> db, drew |-> FALSE]
StepDrew(r, db) == [r |-> r, db |-> db, drew |-> TRUE]

\* (for C6) an email stored as it was submitted
RawEmail(email) == email
\* the email as the INSERT and the UPDATE of users store it
StoredEmail(email) == Trim(ToLowerCase(email))
\* the email the duplicate check of register looks up
LookupEmail(email) == email

\* (for C30) a login that looks the email up as it was submitted
SubmittedEmail(email) == email
\* the email the SELECT of login looks up
LoginEmail(email) == Trim(ToLowerCase(email))

\* (for C8) a registration that provisions no dashboard
SkipDashboard(db, dashboard) == db
\* (for C24) a registration that also provisions every dashboard that is missing
ProvisionMissing(db, dashboard) ==
    [db EXCEPT !.user_dashboards = @ \cup {dashboard} \cup
        {[dashboard EXCEPT !.user_id = x.id] :
            x \in {y \in db.users : Select(db.user_dashboards, "user_id", y.id) = {}}}]
\* register's INSERT INTO user_dashboards
ProvisionDashboard(db, dashboard) == Insert(db, "user_dashboards", dashboard)

\* POST /api/auth/register
register(r, db, t, u) ==
    CASE r.pc = "enter" ->
            IF ParseOk(createUserInputSchema, r.body)
            THEN Step(AwaitConnect([r EXCEPT !.data = Parse(createUserInputSchema, r.body)]), db)
            ELSE Step(ValidationError(r, t), db)
      [] r.pc = "h_connect" -> Step(AwaitQuery(r, 1), db)
      [] r.pc = "h_query" /\ r.step = 1 ->
            IF Select(db.users, "email", Str(LookupEmail(r.data.email[2]))) /= {}
            THEN Step(Respond(Ran(r), createErrorResponse(400,
                        "User with this email already exists", FALSE, "USER_ALREADY_EXISTS", t)), db)
            ELSE Step(AwaitQuery(Ran(r), 2), db)
      [] r.pc = "h_query" /\ r.step = 2 ->
            LET user == [id |-> Str(u),
                         email |-> Str(StoredEmail(r.data.email[2])),
                         name |-> Str(Trim(r.data.name[2])),
                         created_at |-> Str(NowISOString(t)),
                         password_hash |-> r.data.password_hash]
            IN IF InsertOk(db, "users", user)
               THEN StepDrew(AwaitQuery([Ran(r) EXCEPT !.local =
                        [user |-> user, token |-> Sign(user.id, user.email, t)]], 3),
                        Insert(db, "users", user))
               ELSE StepDrew(InternalServerError(Ran(r), t), db)
      [] r.pc = "h_query" /\ r.step = 3 ->
            LET dashboard == [user_id |-> r.local.user.id, carbon_footprint |-> Numeric(0),
                              historical_data |-> Null, daily_tips |-> Null,
                              challenges |-> Null]
            IN IF InsertOk(db, "user_dashboards", dashboard)
               THEN Step(Respond(Ran(r), Json(201,
                        [c \in DOMAIN r.local.user \cup {"token"} |->
                            IF c = "token" THEN <<"jwt", r.local.token>>
                            ELSE r.local.user[c]])),
                        ProvisionDashboard(db, dashboard))
               ELSE Step(InternalServerError(Ran(r), t), db)

\* POST /api/auth/login
login(r, db, t, u) ==
    CASE r.pc = "enter" ->
            IF ~Given(r.body, "email") \/ ~Given(r.body, "password_hash")
            THEN Step(Respond(r, createErrorResponse(400,
                        "Email and password are required", FALSE, "MISSING_CREDENTIALS", t)), db)
            ELSE Step(AwaitConnect(r), db)
      [] r.pc = "h_connect" ->
            \* email.toLowerCase() of a value that is no string throws
            IF IsStr(r.body.email) THEN Step(AwaitQuery(r, 1), db)
            ELSE Step(InternalServerError(r, t), db)
      [] r.pc = "h_query" ->
            LET rows == {x \in db.users :
                            /\ x.email = Str(LoginEmail(r.body.email[2]))
                            /\ x.password_hash = r.body.password_hash}
            IN IF rows = {}
               THEN Step(Respond(Ran(r), createErrorResponse(401,
                        "Invalid email or password", FALSE, "INVALID_CREDENTIALS", t)), db)
               ELSE Step(Respond(Ran(r), Json(200,
                        [auth_token |-> <<"jwt", Sign(RowOf(rows).id, RowOf(rows).email, t)>>,
                         user_id |-> RowOf(rows).id])), db)

\* GET /api/users/:user_id
getUser(r, db, t, u) ==
    CASE r.pc = "enter" -> Step(AwaitConnect(r), db)
      [] r.pc = "h_connect" -> Step(AwaitQuery(r, 1), db)
      [] r.pc = "h_query" ->
            IF Select(db.users, "id", r.param) = {}
            THEN Step(Respond(Ran(r), createErrorResponse(404,
                        "User not found", FALSE, "USER_NOT_FOUND", t)), db)
            ELSE Step(Respond(Ran(r), Json(200,
                        Project(RowOf(Select(db.users, "id", r.param)), PublicUserColumns))), db)

\* carbon_footprint: parseFloat(dashboard.carbon_footprint)
DashboardBody(row) == [row EXCEPT !.carbon_footprint = ParseFloat(@)]

\* GET /api/dashboard/:user_id
getDashboard(r, db, t, u) ==
    CASE r.pc = "enter" -> Step(AwaitConnect(r), db)
      [] r.pc = "h_connect" -> Step(AwaitQuery(r, 1), db)
      [] r.pc = "h_query" ->
            IF Select(db.user_dashboards, "user_id", r.param) = {}
            THEN Step(Respond(Ran(r), createErrorResponse(404,
                        "Dashboard not found", FALSE, "DASHBOARD_NOT_FOUND", t)), db)
            ELSE Step(Respond(Ran(r), Json(200,
                        DashboardBody(RowOf(Select(db.user_dashboards, "user_id", r.param))))), db)

\* GET /api/health
health(r, db, t, u) ==
    Step(Respond(r, Json(200, [status |-> Str(<<"o", "k">>), timestamp |-> Str(NowISOString(t))])), db)

(***************************************************************************)
(* The update handlers share one shape: parse the body, take the fields    *)
(* the handler tests (`if (data.f)` or `if (data.f !== undefined)`), answer*)
(* NO_UPDATE_FIELDS when none is taken, else run one UPDATE ... RETURNING. *)
(***************************************************************************)
UpdateRoute(schema, table, key, truthy, defined, returning, notFound, message) ==
    [schema |-> schema, table |-> table, key |-> key, truthy |-> truthy,
     defined |-> defined, returning |-> returning, notFound |-> notFound,
     message |-> message]

\* PUT /api/users/:user_id
updateUserRoute ==
    UpdateRoute(updateUserInputSchema, "users", "id",
                {"email", "name", "password_hash"}, {}, PublicUserColumns,
                "USER_NOT_FOUND", "User not found")
\* PATCH /api/dashboard/:user_id
updateDashboardRoute ==
    UpdateRoute(updateUserDashboardInputSchema, "user_dashboards", "user_id", {},
                {"carbon_footprint", "historical_data", "daily_tips", "challenges"},
                {"user_id", "carbon_footprint", "historical_data", "daily_tips", "challenges"},
                "DASHBOARD_NOT_FOUND", "Dashboard not found")
\* PATCH /api/impact-calculator/:user_id
updateImpactCalculatorRoute ==
    UpdateRoute(updateImpactCalculatorInputSchema, "impact_calculators", "user_id", {},
                {"travel_habits", "energy_consumption", "waste_management"},
                {"id", "user_id", "travel_habits", "energy_consumption", "waste_management"},
                "CALCULATOR_NOT_FOUND", "Impact calculator not found")
\* PATCH /api/community-forum/:id
updateForumThreadRoute ==
    UpdateRoute(updateEcoCommunityForumInputSchema, "eco_community_forum", "id",
                {"thread_title", "content"}, {},
                {"id", "user_id", "thread_title", "content", "created_at"},
                "THREAD_NOT_FOUND", "Forum thread not found")
\* PATCH /api/events/:id
updateEventRoute ==
    UpdateRoute(updateEventInputSchema, "events", "id",
                {"event_name", "event_date", "organizer_id"}, {"location"},
                {"id", "event_name", "event_date", "location", "organizer_id"},
                "EVENT_NOT_FOUND", "Event not found")
\* PATCH /api/resource-library/:id
updateResourceRoute ==
    UpdateRoute(updateResourceLibraryInputSchema, "resource_library", "id",
                {"content_type", "title", "author_id"}, {"description", "content_url"},
                {"id", "content_type", "title", "description", "content_url", "author_id"},
                "RESOURCE_NOT_FOUND", "Resource not found")
\* PATCH /api/alerts/:id
updateAlertRoute ==
    UpdateRoute(updateAlertInputSchema, "alerts", "id", {"alert_type", "message"}, {},
                {"id", "user_id", "alert_type", "message", "created_at"},
                "ALERT_NOT_FOUND", "Alert not found")

UpdateHandlers ==
    {"updateUser", "updateDashboard", "updateImpactCalculator", "updateForumThread",
     "updateEvent", "updateResource", "updateAlert"}

UpdateRouteOf(handler) ==
    CASE handler = "updateUser" -> updateUserRoute
      [] handler = "updateDashboard" -> updateDashboardRoute
      [] handler = "updateImpactCalculator" -> updateImpactCalculatorRoute
      [] handler = "updateForumThread" -> updateForumThreadRoute
      [] handler = "updateEvent" -> updateEventRoute
      [] handler = "updateResource" -> updateResourceRoute
      [] handler = "updateAlert" -> updateAlertRoute

\* updateFields: the columns the handler puts in its SET clause
UpdateFields(u, data) ==
    {f \in u.truthy : Given(data, f)} \cup {f \in u.defined : Has(data, f)}

\* updateValues: what is pushed for a column
UpdateValue(table, column, v) ==
    CASE table = "users" /\ column = "email" -> Str(StoredEmail(v[2]))
      [] table = "users" /\ column = "name" -> Str(Trim(v[2]))
      [] table = "user_dashboards" /\ column = "carbon_footprint" -> Numeric(v[2])
      [] v[1] = "date" -> Str(v[2])
      [] OTHER -> v

SetClause(u, data) ==
    [c \in UpdateFields(u, data) |-> UpdateValue(u.table, c, data[c])]

\* `if (req.user.id !== user_id)` of PUT /api/users/:user_id
Forbidden(r) == r.handler = "updateUser" /\ r.user.id /= r.param

\* the seven update handlers
update(r, db, t, u) ==
    LET route == UpdateRouteOf(r.handler) IN
    CASE r.pc = "enter" ->
            IF ~ParseOk(route.schema, r.body) THEN Step(ValidationError(r, t), db)
            ELSE IF Forbidden(r)
            THEN Step(Respond(r, createErrorResponse(403,
                        "Forbidden: Cannot update another user's profile", FALSE, "FORBIDDEN", t)), db)
            ELSE Step(AwaitConnect([r EXCEPT !.data = Parse(route.schema, r.body)]), db)
      [] r.pc = "h_connect" ->
            IF UpdateFields(route, r.data) = {}
            THEN Step(Respond(r, createErrorResponse(400,
                        "No valid fields to update", FALSE, "NO_UPDATE_FIELDS", t)), db)
            ELSE Step(AwaitQuery(r, 1), db)
      [] r.pc = "h_query" ->
            LET set == SetClause(route, r.data)
                after == Update(db, route.table, route.key, r.param, set)
                hit == Select(after[route.table], route.key, r.param)
            IN IF ~UpdateOk(db, route.table, route.key, r.param, set)
               THEN Step(InternalServerError(Ran(r), t), db)
               ELSE IF Select(db[route.table], route.key, r.param) = {}
               THEN Step(Respond(Ran(r), createErrorResponse(404,
                        route.message, FALSE, route.notFound, t)), db)
               ELSE Step(Respond(Ran(r), Json(200,
                        IF route.table = "user_dashboards"
                        THEN DashboardBody(Project(RowOf(hit), route.returning))
                        ELSE Project(RowOf(hit), route.returning))), after)

(***************************************************************************)
(* The create handlers: parse the body, INSERT ... RETURNING * with a new  *)
(* identifier, answer 201 with the row.                                    *)
(***************************************************************************)
\* created_at ? created_at.toISOString() : new Date().toISOString()
Timestamp(data, t) ==
    IF Given(data, "created_at") THEN Str(data.created_at[2]) ELSE Str(NowISOString(t))

\* the row each create handler inserts
NewRow(r, t, u) ==
    CASE r.handler = "createForumThread" ->
            [id |-> Str(u), user_id |-> r.data.user_id, thread_title |-> r.data.thread_title,
             content |-> r.data.content, created_at |-> Timestamp(r.data, t)]
      [] r.handler = "createEvent" ->
            [id |-> Str(u), event_name |-> r.data.event_name,
             event_date |-> Str(r.data.event_date[2]), location |-> r.data.location,
             organizer_id |-> r.data.organizer_id]
      [] r.handler = "createResource" ->
            [id |-> Str(u), content_type |-> r.data.content_type, title |-> r.data.title,
             description |-> r.data.description, content_url |-> r.data.content_url,
             author_id |-> r.data.author_id]
      [] r.handler = "createAlert" ->
            [id |-> Str(u), user_id |-> r.param, alert_type |-> r.data.alert_type,
             message |-> r.data.message, created_at |-> Timestamp(r.data, t)]

CreateHandlers == {"createForumThread", "createEvent", "createResource", "createAlert"}

CreateSchemaOf(handler) ==
    CASE handler = "createForumThread" -> createEcoCommunityForumInputSchema
      [] handler = "createEvent" -> createEventInputSchema
      [] handler = "createResource" -> createResourceLibraryInputSchema
      [] handler = "createAlert" -> createAlertInputSchema

TableOf(handler) ==
    CASE handler \in {"createForumThread", "getForumThreads"} -> "eco_community_forum"
      [] handler \in {"createEvent", "getEvents"} -> "events"
      [] handler \in {"createResource", "getResources"} -> "resource_library"
      [] handler \in {"createAlert", "getAlerts"} -> "alerts"

\* POST /api/community-forum, /api/events, /api/resource-library, /api/alerts/:user_id
create(r, db, t, u) ==
    CASE r.pc = "enter" ->
            IF ParseOk(CreateSchemaOf(r.handler), r.body)
            THEN Step(AwaitConnect([r EXCEPT !.data = Parse(CreateSchemaOf(r.handler), r.body)]), db)
            ELSE Step(ValidationError(r, t), db)
      [] r.pc = "h_connect" -> Step(AwaitQuery(r, 1), db)
      [] r.pc = "h_query" ->
            IF InsertOk(db, TableOf(r.handler), NewRow(r, t, u))
            THEN StepDrew(Respond(Ran(r), Json(201, NewRow(r, t, u))),
                          Insert(db, TableOf(r.handler), NewRow(r, t, u)))
            ELSE StepDrew(InternalServerError(Ran(r), t), db)

ListHandlers == {"getForumThreads", "getEvents", "getResources", "getAlerts"}

\* (for C25) the alerts of the authenticated user instead of the user of the path
ListedOwn(r, db) ==
    IF r.handler = "getAlerts" THEN Select(db.alerts, "user_id", r.user.id)
    ELSE db[TableOf(r.handler)]
\* the rows a list handler selects
Listed(r, db) ==
    IF r.handler = "getAlerts" THEN Select(db.alerts, "user_id", r.param)
    ELSE db[TableOf(r.handler)]

\* (for C15) a list handler that reports an empty result as not found
NotFoundWhenEmpty(rows, t) ==
    IF rows = << >>
    THEN createErrorResponse(404, "Not found", FALSE, "NOT_FOUND", t)
    ELSE Json(200, rows)
\* res.json(result.rows)
ListAnswer(rows, t) == Json(200, rows)

\* the ORDER BY clause of each list handler
ListOrder(handler) ==
    CASE handler = "getForumThreads" -> <<"created_at", "DESC">>
      [] handler = "getEvents" -> <<"event_date", "ASC">>
      [] handler = "getResources" -> <<"title", "ASC">>
      [] handler = "getAlerts" -> <<"created_at", "DESC">>

\* GET /api/community-forum, /api/events, /api/resource-library, /api/alerts/:user_id
list(r, db, t, u) ==
    CASE r.pc = "enter" -> Step(AwaitConnect(r), db)
      [] r.pc = "h_connect" -> Step(AwaitQuery(r, 1), db)
      [] r.pc = "h_query" ->
            Step(Respond(Ran(r), ListAnswer(
                    OrderBy(Listed(r, db), ListOrder(r.handler)[1], ListOrder(r.handler)[2]), t)), db)

\* searchUserInputSchema.parse(req.query): the values of a query string are
\* strings, so a limit or an offset that is given is no number
SearchQueryOk(q) ==
    /\ Has(q, "query") => IsStr(q.query)
    /\ Has(q, "limit") => IsNum(q.limit) /\ q.limit[2] > 0
    /\ Has(q, "offset") => IsNum(q.offset) /\ q.offset[2] >= 0
    /\ Has(q, "sort_by") => q.sort_by \in {Str(<<"name">>), Str(<<"created_at">>)}
    /\ Has(q, "sort_order") => q.sort_order \in {Str(<<"asc">>), Str(<<"desc">>)}

\* the parsed query with the schema's defaults
SearchQuery(q) ==
    [query |-> IF Has(q, "query") THEN q.query ELSE Null,
     limit |-> IF Has(q, "limit") THEN q.limit[2] ELSE 10,
     offset |-> IF Has(q, "offset") THEN q.offset[2] ELSE 0,
     sort_by |-> IF Has(q, "sort_by") THEN q.sort_by[2][1] ELSE "created_at",
     sort_order |-> IF Has(q, "sort_order") /\ q.sort_order = Str(<<"asc">>)
                    THEN "ASC" ELSE "DESC"]

\* hay ILIKE '%needle%'
Contains(hay, needle) ==
    \E k \in 0..(Len(hay) - Len(needle)) :
        SubSeq(ToLowerCase(hay), k + 1, k + Len(needle)) = ToLowerCase(needle)

\* the SELECT of the search: WHERE, ORDER BY, LIMIT and OFFSET
Found(rows, p) ==
    LET hits == IF Truthy(p.query)
                THEN {x \in rows : \/ Contains(x.name[2], p.query[2])
                                   \/ Contains(x.email[2], p.query[2])}
                ELSE rows
        sorted == OrderBy({Project(x, PublicUserColumns) : x \in hits},
                          p.sort_by, p.sort_order)
        last == IF p.offset + p.limit < Len(sorted) THEN p.offset + p.limit
                ELSE Len(sorted)
    IN SubSeq(sorted, p.offset + 1, last)

\* GET /api/users/search
searchUsers(r, db, t, u) ==
    CASE r.pc = "enter" ->
            IF SearchQueryOk(r.query) THEN Step(AwaitConnect(r), db)
            ELSE Step(Respond(r, createErrorResponse(400,
                        "Invalid query parameters", TRUE, "VALIDATION_ERROR", t)), db)
      [] r.pc = "h_connect" -> Step(AwaitQuery(r, 1), db)
      [] r.pc = "h_query" ->
            Step(Respond(Ran(r), Json(200, Found(db.users, SearchQuery(r.query)))), db)

\* GET /api/impact-calculator/:user_id
getImpactCalculator(r, db, t, u) ==
    CASE r.pc = "enter" -> Step(AwaitConnect(r), db)
      [] r.pc = "h_connect" -> Step(AwaitQuery(r, 1), db)
      [] r.pc = "h_query" /\ r.step = 1 ->
            IF Select(db.impact_calculators, "user_id", r.param) = {}
            THEN Step(AwaitQuery(Ran(r), 2), db)
            ELSE Step(Respond(Ran(r), Json(200,
                        RowOf(Select(db.impact_calculators, "user_id", r.param)))), db)
      [] r.pc = "h_query" /\ r.step = 2 ->
            LET calculator == [id |-> Str(u), user_id |-> r.param, travel_habits |-> Null,
                               energy_consumption |-> Null, waste_management |-> Null]
            IN IF InsertOk(db, "impact_calculators", calculator)
               THEN StepDrew(Respond(Ran(r), Json(200, calculator)),
                             Insert(db, "impact_calculators", calculator))
               ELSE StepDrew(InternalServerError(Ran(r), t), db)

\* the handler of a task
Handle(r, db, t, u) ==
    CASE r.handler = "register" -> register(r, db, t, u)
      [] r.handler = "login" -> login(r, db, t, u)
      [] r.handler = "getUser" -> getUser(r, db, t, u)
      [] r.handler = "searchUsers" -> searchUsers(r, db, t, u)
      [] r.handler = "getDashboard" -> getDashboard(r, db, t, u)
      [] r.handler = "getImpactCalculator" -> getImpactCalculator(r, db, t, u)
      [] r.handler = "health" -> health(r, db, t, u)
      [] r.handler \in UpdateHandlers -> update(r, db, t, u)
      [] r.handler \in CreateHandlers -> create(r, db, t, u)
      [] r.handler \in ListHandlers -> list(r, db, t, u)

\* the handlers that may call randomUUID()
Drawing == CreateHandlers \cup {"register", "getImpactCalculator"}

(***************************************************************************)
(* The auth guard.                                                         *)
(***************************************************************************)
\* next(): the route's handler runs up to its first await
Next_(r, db, t) == Handle([r EXCEPT !.pc = "enter", !.entered = TRUE], db, t, << >>).r

\* (for C28) a guard that keeps its connection while the handler it started runs
holdGuard(r) == r
\* `finally { client.release() }` of authenticateToken
releaseGuard(r) == [r EXCEPT !.gconn = FALSE]

\* (for C26) a guard that looks the user up by the email in the token
UserOfEmail(db, token) == Select(db.users, "email", token.email)
\* SELECT id, email, name, created_at FROM users WHERE id = decoded.user_id
UserOfToken(db, token) == Select(db.users, "id", token.user_id)

\* authenticateToken: r.pc = "guard" is the code up to its pool.connect(),
\* "g_query" its SELECT and what follows the result
authenticateToken(r, db, t) ==
    CASE r.pc = "guard" ->
            IF ~HasToken(r.auth)
            THEN Respond(r, createErrorResponse(401,
                    "Access token required", FALSE, "AUTH_TOKEN_MISSING", t))
            ELSE IF ~Verify(r.auth.token, t)
            THEN Respond([r EXCEPT !.stage = <<"TokenPresent">>],
                    createErrorResponse(403, "Invalid or expired token", TRUE, "AUTH_TOKEN_INVALID", t))
            ELSE [r EXCEPT !.pc = "g_connect", !.stage = <<"TokenPresent", "TokenVerified">>]
      [] r.pc = "g_query" ->
            LET rows == UserOfToken(db, r.auth.token) IN
            IF rows = {}
            THEN releaseGuard(Respond(r, createErrorResponse(401,
                    "User not found", FALSE, "AUTH_USER_NOT_FOUND", t)))
            ELSE releaseGuard(Next_([r EXCEPT !.user = Project(RowOf(rows), PublicUserColumns),
                                              !.stage = Append(@, "UserResolved")], db, t))

\* the catch block of authenticateToken, entered by an error other than a
\* failed jwt.verify: a rejected pool.connect() or client.query()
GuardCatch(r, t) ==
    releaseGuard(Respond(r, createErrorResponse(403, "Invalid or expired token", TRUE,
                                                "AUTH_TOKEN_INVALID", t)))

(***************************************************************************)
(* The clients: the requests a profile's clients may send.                 *)
(***************************************************************************)
Request(method, path, auth, body) ==
    [method |-> method, path |-> path, auth |-> auth, body |-> body]

ghost == <<"ghost">>
newEmail == <<"n", "@", "x">>
password1 == <<"p", "1">>
password2 == <<"p", "2">>

\* a token of user1 issued now, one issued 7 days ago, one signed with another
\* secret, and one of a user id that is in no row
ValidToken == Sign(Str(user1), Str(john), 0)
ExpiredToken == Sign(Str(user1), Str(john), 0 - ExpiresIn)
ForgedToken == [ValidToken EXCEPT !.sig = "another-secret"]
GhostToken == Sign(Str(ghost), Str(john), 0)

Authorizations ==
    {NoAuthorization, [parts |-> 1, token |-> NoToken], Bearer(ValidToken),
     Bearer(ExpiredToken), Bearer(ForgedToken), Bearer(GhostToken)}

\* one request per route that is well formed for the seeded store, and the
\* two requests of the spec's interface that match no route of their own,
\* by family of routes
WellFormed(family) ==
    CASE family = "accounts" ->
        { <<"POST", <<"api", "auth", "register">>,
            [email |-> Str(newEmail), name |-> Str(<<"n">>), password_hash |-> Str(password1)]>>,
          <<"POST", <<"api", "auth", "login">>,
            [email |-> Str(john), password_hash |-> Str(password1)]>>,
          <<"GET", <<"api", "users", "user1">>, EmptyObject>>,
          <<"PUT", <<"api", "users", "user1">>, [id |-> Str(user1), name |-> Str(<<"n">>)]>>,
          <<"GET", <<"api", "users", "search">>, EmptyObject>>,
          <<"GET", <<"api", "health">>, EmptyObject>> }
      [] family = "dashboard" ->
        { <<"GET", <<"api", "dashboard", "user1">>, EmptyObject>>,
          <<"PATCH", <<"api", "dashboard", "user1">>,
            [user_id |-> Str(user1), carbon_footprint |-> Num(7)]>>,
          <<"GET", <<"api", "impact-calculator", "user1">>, EmptyObject>>,
          <<"PATCH", <<"api", "impact-calculator", "user1">>,
            [id |-> Str(<<"calculator1">>), travel_habits |-> Str(<<"b">>)]>> }
      [] family = "forum" ->
        { <<"GET", <<"api", "community-forum">>, EmptyObject>>,
          <<"POST", <<"api", "community-forum">>,
            [user_id |-> Str(user1), thread_title |-> Str(<<"t">>), content |-> Str(<<"c">>),
             created_at |-> Str(<<"d", "8">>)]>>,
          <<"PATCH", <<"api", "community-forum", "thread1">>,
            [id |-> Str(<<"thread1">>), content |-> Str(<<"c">>)]>> }
      [] family = "events" ->
        { <<"GET", <<"api", "events">>, EmptyObject>>,
          <<"POST", <<"api", "events">>,
            [event_name |-> Str(<<"g", "m">>), event_date |-> Str(<<"d", "8">>),
             location |-> Str(<<"g", "p">>), organizer_id |-> Str(user1)]>>,
          <<"PATCH", <<"api", "events", "event1">>,
            [id |-> Str(<<"event1">>), location |-> Str(<<"u", "l">>)]>>,
          <<"DELETE", <<"api", "events", "event1">>, EmptyObject>> }
      [] family = "resources" ->
        { <<"GET", <<"api", "resource-library">>, EmptyObject>>,
          <<"POST", <<"api", "resource-library">>,
            [content_type |-> Str(<<"v">>), title |-> Str(<<"t">>), description |-> Null,
             content_url |-> Null, author_id |-> Str(user1)]>>,
          <<"PATCH", <<"api", "resource-library", "resource1">>,
            [id |-> Str(<<"resource1">>), title |-> Str(<<"t">>)]>> }
      [] family = "alerts" ->
        { <<"GET", <<"api", "alerts", "user1">>, EmptyObject>>,
          <<"POST", <<"api", "alerts", "user1">>,
            [user_id |-> Str(user1), alert_type |-> Str(<<"r">>), message |-> Str(<<"m">>),
             created_at |-> Str(<<"d", "8">>)]>>,
          <<"PATCH", <<"api", "alerts", "alert1">>,
            [id |-> Str(<<"alert1">>), message |-> Str(<<"m">>)]>> }

Families == {"accounts", "dashboard", "forum", "events", "resources", "alerts"}

\* a profile is a kind of client and the family of routes it uses; the
\* clients of kind "guard" send the family's requests under every kind of
\* Authorization header
Profile(kind, family) == [kind |-> kind, family |-> family]

GuardRequests(family) ==
    {Request(w[1], w[2], a, w[3]) : w \in WellFormed(family), a \in Authorizations}

\* the registration bodies: a new email, a new email in upper case, the
\* email of user1 in upper case, the email of user1, and a body without name
Registration(email) ==
    [email |-> Str(email), name |-> Str(<<"n">>), password_hash |-> Str(password1)]
upperNew == <<"N", "@", "x">>
upperJohn == <<"J", "@", "x">>
upperJane == <<"K", "@", "x">>

Register(body) == Request("POST", <<"api", "auth", "register">>, NoAuthorization, body)
Login(body) == Request("POST", <<"api", "auth", "login">>, NoAuthorization, body)
PutUser1(body) == Request("PUT", <<"api", "users", "user1">>, Bearer(ValidToken), body)
GetDashboard(id) == Request("GET", <<"api", "dashboard", id>>, Bearer(ValidToken), EmptyObject)

RegisterRequests ==
    {Register(Registration(e)) : e \in {newEmail, upperNew, upperJohn, john}}
        \cup {Register([email |-> Str(newEmail), password_hash |-> Str(password1)])}

\* the login bodies: the credentials of user1, the same with the email in
\* upper case between spaces, a wrong credential, an email that may be in no
\* row, an email that is a number, and a body without credential
LoginRequests ==
    { Login([email |-> Str(john), password_hash |-> Str(password1)]),
      Login([email |-> Str(<<" ">> \o upperJohn \o <<" ">>), password_hash |-> Str(password1)]),
      Login([email |-> Str(john), password_hash |-> Str(password2)]),
      Login([email |-> Str(newEmail), password_hash |-> Str(password1)]),
      Login([email |-> Num(7), password_hash |-> Str(password1)]),
      Login([email |-> Str(john)]) }

\* user1 changes its email to a new one, or to the email of user2
EmailChanges ==
    { PutUser1([id |-> Str(user1), email |-> Str(upperNew)]),
      PutUser1([id |-> Str(user1), email |-> Str(upperJane)]) }

SessionRequests ==
    RegisterRequests \cup LoginRequests \cup EmailChanges \cup {GetDashboard("uuid1")}

RaceRequests ==
    {Register(Registration(e)) : e \in {upperNew, upperJohn}} \cup EmailChanges

\* the bodies an update request is sent with: none, one field no schema
\* knows, the key alone, the fields without the key, and both
Restrict(body, fields) == [f \in fields |-> body[f]]
UpdateBodies(full) ==
    LET key == DOMAIN full \cap {"id", "user_id"} IN
    { EmptyObject, [colour |-> Str(<<"c">>)], Restrict(full, key),
      Restrict(full, DOMAIN full \ key), full }

UpdateRequests(family) ==
    UNION { {Request(w[1], w[2], a, b) : a \in {NoAuthorization, Bearer(ValidToken)},
                                         b \in UpdateBodies(w[3])} :
            w \in {x \in WellFormed(family) : x[1] \in {"PUT", "PATCH"}} }

\* registrations and reads of the dashboards they provision
ProvisionRequests ==
    {Register(Registration(e)) : e \in {upperNew, upperJohn}}
        \cup {GetDashboard("uuid1"), GetDashboard("uuid2")}

\* updates that succeed: the well-formed update of each route, and for the
\* resource library and the dashboard updates of two fields, one of them
\* emptied or set to null
PatchAs1(path, body) == Request("PATCH", path, Bearer(ValidToken), body)
FrameRequests(family) ==
    {Request(w[1], w[2], Bearer(ValidToken), w[3]) :
        w \in {x \in WellFormed(family) : x[1] \in {"PUT", "PATCH"}}}
    \cup (IF family = "resources"
          THEN { PatchAs1(<<"api", "resource-library", "resource1">>,
                    [id |-> Str(<<"resource1">>), title |-> Str(<< >>),
                     description |-> Str(<<"d">>)]),
                 PatchAs1(<<"api", "resource-library", "resource2">>,
                    [id |-> Str(<<"resource2">>), description |-> Null,
                     content_url |-> Str(<<"u">>)]) }
          ELSE IF family = "dashboard"
          THEN { PatchAs1(<<"api", "dashboard", "user2">>,
                    [user_id |-> Str(user2), carbon_footprint |-> Num(0),
                     daily_tips |-> Null]) }
          ELSE {})

\* user1 sends profile updates for itself and for user2: no body, a name
\* alone, and a name, an email or a credential with the id of the target
OwnershipRequests ==
    UNION { { Request("PUT", <<"api", "users", target[1]>>, Bearer(ValidToken), b) :
                b \in { EmptyObject,
                        [name |-> Str(<<"n">>)],
                        [id |-> Str(target), name |-> Str(<<"n">>)],
                        [id |-> Str(target), email |-> Str(upperNew)],
                        [id |-> Str(target), password_hash |-> Str(password2)] } } :
            target \in {user1, user2} }

\* events created with a date-only date and with a full timestamp and no
\* location, and the list of events
EventBody(date, location) ==
    [event_name |-> Str(<<"g", "m">>), event_date |-> Str(date),
     location |-> location, organizer_id |-> Str(user1)]
PostEvent(body) == Request("POST", <<"api", "events">>, Bearer(ValidToken), body)
GetEvents == Request("GET", <<"api", "events">>, Bearer(ValidToken), EmptyObject)
RoundTripRequests ==
    { PostEvent(EventBody(<<"d", "8">>, Str(<<"g", "p">>))),
      PostEvent(EventBody(<<"d", "3", "T", "Z">>, Null)),
      GetEvents }

\* the four lists, the alerts of a user that has none, and a new resource
GetAs1(path) == Request("GET", path, Bearer(ValidToken), EmptyObject)
ListRequests ==
    { GetAs1(<<"api", "community-forum">>), GetAs1(<<"api", "events">>),
      GetAs1(<<"api", "resource-library">>), GetAs1(<<"api", "alerts", "user1">>),
      GetAs1(<<"api", "alerts", "ghost">>),
      Request("POST", <<"api", "resource-library">>, Bearer(ValidToken),
              [content_type |-> Str(<<"v">>), title |-> Str(<<"a">>), description |-> Null,
               content_url |-> Null, author_id |-> Str(user1)]) }

\* searches for users: no query, a query that matches user1, one that
\* matches no user, and one sorted by name; and the registrations
Search(query) ==
    Request("GET", <<"api", "users", "search">>, Bearer(ValidToken), EmptyObject)
        @@ [query |-> query]
SearchRequests ==
    { Search(EmptyObject), Search([query |-> Str(<<"J">>)]),
      Search([query |-> Str(<<"z", "z">>)]),
      Search([sort_by |-> Str(<<"name">>), sort_order |-> Str(<<"asc">>)]) }
        \cup RegisterRequests

\* forum threads and alerts created without created_at, with a full
\* timestamp and with a date-only one
ThreadBody == [user_id |-> Str(user1), thread_title |-> Str(<<"t">>), content |-> Str(<<"c">>)]
AlertBody == [user_id |-> Str(user1), alert_type |-> Str(<<"r">>), message |-> Str(<<"m">>)]
Stamps == {Str(<<"d", "3", "T", "Z">>), Str(<<"d", "8">>)}
StampRequests ==
    { Request("POST", path, Bearer(ValidToken), body) :
        path \in {<<"api", "community-forum">>}, body \in {ThreadBody} }
    \cup { Request("POST", <<"api", "community-forum">>, Bearer(ValidToken),
                   ThreadBody @@ [created_at |-> d]) : d \in Stamps }
    \cup { Request("POST", <<"api", "alerts", "user1">>, Bearer(ValidToken), AlertBody) }
    \cup { Request("POST", <<"api", "alerts", "user1">>, Bearer(ValidToken),
                   AlertBody @@ [created_at |-> d]) : d \in Stamps }

\* a registration, reads of the calculator of the user it creates, and
\* reads of the calculator of a seeded user
GetCalculator(id) ==
    Request("GET", <<"api", "impact-calculator", id>>, Bearer(ValidToken), EmptyObject)
CalculatorRequests ==
    {Register(Registration(upperNew)), GetCalculator("uuid1"), GetCalculator("user1")}

\* requests that end in a success and in a 4xx answered with a connection
\* held
GetUser(id, token) == Request("GET", <<"api", "users", id>>, Bearer(token), EmptyObject)
FaultRequests ==
    { Register(Registration(upperNew)),
      GetUser("user1", ValidToken), GetUser("ghost", ValidToken) }

\* the creates and updates of a family with well-formed bodies, with the
\* bodies of UpdateBodies, and with one field after the other turned into
\* a number
Mistyped(full) == {[full EXCEPT ![f] = Num(5)] : f \in DOMAIN full}
WriteRequests(family) ==
    UNION { {Request(w[1], w[2], Bearer(ValidToken), b) :
                b \in UpdateBodies(w[3]) \cup Mistyped(w[3])} :
            w \in {x \in WellFormed(family) :
                      /\ x[1] \in {"POST", "PUT", "PATCH"}
                      /\ x[2] /= <<"api", "auth", "login">>} }

\* a registration and a login, whose tokens are presented later with a read
\* and with changes of the email and of the credential of user1
\* a registration, logins with the registered email, with its upper-case
\* spelling and with another email, each with two credentials, and changes
\* of the email and of the credential of the registered user, presented with
\* a token the server issued
upperOther == <<"M", "@", "x">>
CredentialRequests ==
    {Register(Registration(upperNew))} \cup
    {Login([email |-> Str(e), password_hash |-> Str(p)]) :
        e \in {newEmail, upperNew, upperOther}, p \in {password1, password2}}
CredentialChanges(token) ==
    {Request("PUT", <<"api", "users", "uuid1">>, Bearer(token), b) :
        b \in { [id |-> Str(UuidPool[1]), email |-> Str(upperOther)],
                [id |-> Str(UuidPool[1]), email |-> Str(upperNew)],
                [id |-> Str(UuidPool[1]), password_hash |-> Str(password2)] }}

ClockRequests ==
    { Register(Registration(upperNew)),
      Login([email |-> Str(john), password_hash |-> Str(password1)]) }
Presented(token) ==
    IF profile.kind = "credentials" THEN CredentialChanges(token) ELSE
    { Request("GET", <<"api", "dashboard", "user1">>, Bearer(token), EmptyObject),
      Request("GET", <<"api", "events">>, Bearer(token), EmptyObject),
      Request("PUT", <<"api", "users", "user1">>, Bearer(token),
              [id |-> Str(user1), email |-> Str(upperNew)]),
      Request("PUT", <<"api", "users", "user1">>, Bearer(token),
              [id |-> Str(user1), password_hash |-> Str(password2)]) }

\* registrations of one email in two spellings and of another email, and
\* a read and an update of the dashboards of the users they create
otherEmail == <<"m", "@", "x">>
OrphanRequests ==
    {Register(Registration(e)) : e \in {newEmail, upperNew, otherEmail}}
        \cup {GetDashboard("uuid1")}
        \cup {Request("PATCH", <<"api", "dashboard", "uuid1">>, Bearer(ValidToken),
                      [user_id |-> Str(<<"uuid1">>), carbon_footprint |-> Num(7)])}

\* every request of a family, sent with a valid token of user1 and with one
\* of user2
Token2 == Sign(Str(user2), Str(jane), 0)
TwinRequests(family) ==
    {Request(w[1], w[2], Bearer(token), w[3]) :
        w \in WellFormed(family), token \in {ValidToken, Token2}}

\* reads of a dashboard that exists and of one that does not, and a request
\* that needs no connection
PoolRequests ==
    { GetDashboard("user1"), GetDashboard("ghost"),
      Request("GET", <<"api", "health">>, NoAuthorization, EmptyObject) }

Requests(p) ==
    CASE p.kind = "guard" -> GuardRequests(p.family)
      [] p.kind = "session" -> SessionRequests
      [] p.kind = "provision" -> ProvisionRequests
      [] p.kind = "race" -> RaceRequests
      [] p.kind = "frame" -> FrameRequests(p.family)
      [] p.kind = "ownership" -> OwnershipRequests
      [] p.kind = "roundtrip" -> RoundTripRequests
      [] p.kind = "lists" -> ListRequests
      [] p.kind = "search" -> SearchRequests
      [] p.kind = "stamps" -> StampRequests
      [] p.kind = "calculator" -> CalculatorRequests
      [] p.kind = "faults" -> FaultRequests
      [] p.kind = "writes" -> WriteRequests(p.family)
      [] p.kind = "clock" -> ClockRequests
      [] p.kind = "orphan" -> OrphanRequests
      [] p.kind = "twins" -> TwinRequests(p.family)
      [] p.kind = "pool" -> PoolRequests
      [] p.kind = "credentials" -> CredentialRequests
      [] p.kind = "updates" -> UpdateRequests(p.family)

\* the profiles whose clients send requests while others are in flight
Interleaved == {"race", "provision", "roundtrip", "calculator", "faults", "pool"}
InFlightLimit(p) == IF p.kind \in Interleaved THEN MaxInFlight ELSE 1

(***************************************************************************)
(* The state machine.                                                      *)
(***************************************************************************)
\* new Pool(...) sets no max: pg's pool holds up to 10 connections
PoolSize == 10
\* the size of the pool the server of a profile runs with: the clients of
\* kind "pool" meet servers with small pools
PoolLimit(p) == IF "pool" \in DOMAIN p THEN p.pool ELSE PoolSize

Slots == 1..MaxInFlight
InFlight(r) == r.pc \notin {"idle", "done"}
CheckedOut ==
    Cardinality({i \in Slots : reqs[i].gconn}) + Cardinality({i \in Slots : reqs[i].hconn})

SetDB(db) ==
    /\ users' = db.users
    /\ user_dashboards' = db.user_dashboards
    /\ impact_calculators' = db.impact_calculators
    /\ eco_community_forum' = db.eco_community_forum
    /\ events' = db.events
    /\ resource_library' = db.resource_library
    /\ alerts' = db.alerts

\* Express's answer when no route matches
NotFound(r) == Respond(r, Json(404, EmptyObject))

\* a request arrives: Express dispatches it, and the guard or the handler
\* runs up to its first await
Arrive(q, db, t) ==
    LET k == Dispatch(q.method, q.path)
        r == [IdleRequest EXCEPT !.method = q.method, !.path = q.path,
                                 !.auth = q.auth, !.body = q.body,
                                 !.query = IF "query" \in DOMAIN q THEN q.query
                                           ELSE EmptyObject]
    IN IF k = 0 THEN NotFound(r)
       ELSE LET routed == [r EXCEPT !.handler = routes[k].handler,
                                    !.param = ParamOf(routes[k], q.path)]
            IN IF routes[k].guard
               THEN authenticateToken([routed EXCEPT !.pc = "guard"], db, t)
               ELSE Next_(routed, db, t)

Receive(i) ==
    /\ ~InFlight(reqs[i])
    /\ \A j \in 1..(i - 1) : InFlight(reqs[j])
    /\ Cardinality({j \in Slots : InFlight(reqs[j])}) < InFlightLimit(profile)
    /\ \E q \in Requests(profile) :
          /\ Arrive(q, DB, now).handler \in Drawing =>
                uuids + Cardinality({j \in Slots : InFlight(reqs[j])
                                        /\ reqs[j].handler \in Drawing}) < MaxUuid
          /\ reqs' = [reqs EXCEPT ![i] = Arrive(q, DB, now)]
    /\ UNCHANGED <<tables, uuids, now, profile>>

\* the guard's pool.connect() resolves
GuardConnect(i) ==
    /\ reqs[i].pc = "g_connect"
    /\ CheckedOut < PoolLimit(profile)
    /\ reqs' = [reqs EXCEPT ![i] = [@ EXCEPT !.pc = "g_query", !.gconn = TRUE]]
    /\ UNCHANGED <<tables, uuids, now, profile>>

\* the guard's SELECT runs; the handler is entered or the request rejected
GuardQuery(i) ==
    /\ reqs[i].pc = "g_query"
    /\ reqs' = [reqs EXCEPT ![i] = authenticateToken(@, DB, now)]
    /\ UNCHANGED <<tables, uuids, now, profile>>

\* the handler's pool.connect() resolves
HandlerConnect(i) ==
    /\ reqs[i].pc = "h_connect"
    /\ CheckedOut < PoolLimit(profile)
    /\ reqs' = [reqs EXCEPT ![i] =
                  Handle([@ EXCEPT !.hconn = TRUE], DB, now, << >>).r]
    /\ UNCHANGED <<tables, uuids, now, profile>>

\* the handler's next statement runs on the store
HandlerQuery(i) ==
    /\ reqs[i].pc = "h_query"
    /\ LET out == Handle(reqs[i], DB, now, UuidPool[uuids + 1]) IN
          /\ reqs' = [reqs EXCEPT ![i] = out.r]
          /\ SetDB(out.db)
          /\ uuids' = IF out.drew THEN uuids + 1 ELSE uuids
    /\ UNCHANGED <<now, profile>>

Next ==
    \E i \in Slots :
        \/ Receive(i)
        \/ GuardConnect(i)
        \/ GuardQuery(i)
        \/ HandlerConnect(i)
        \/ HandlerQuery(i)

\* the store db.sql leaves, no request yet
InitStore ==
    /\ users = SeedUsers
    /\ user_dashboards = SeedDashboards
    /\ impact_calculators = SeedCalculators
    /\ eco_community_forum = SeedForum
    /\ events = SeedEvents
    /\ resource_library = SeedResources
    /\ alerts = SeedAlerts
    /\ reqs = [i \in Slots |-> IdleRequest]
    /\ uuids = 0
    /\ now = 0

\* every route under every kind of Authorization header, one request at a time
Init == InitStore /\ profile \in {Profile("guard", f) : f \in Families}
Spec == Init /\ [][Next]_vars

\* registrations, logins and email changes, one request at a time
InitSession == InitStore /\ profile = Profile("session", "accounts")
SpecSession == InitSession /\ [][Next]_vars

\* registrations and email changes sent while others are in flight
InitRace == InitStore /\ profile = Profile("race", "accounts")
SpecRace == InitRace /\ [][Next]_vars

\* registrations and dashboard reads sent while others are in flight
InitProvision == InitStore /\ profile = Profile("provision", "accounts")
SpecProvision == InitProvision /\ [][Next]_vars

\* update requests with every shape of body, one request at a time
InitUpdates == InitStore /\ profile \in {Profile("updates", f) : f \in Families}
SpecUpdates == InitUpdates /\ [][Next]_vars

\* updates that succeed, one request at a time
InitFrame == InitStore /\ profile \in {Profile("frame", f) : f \in Families}
SpecFrame == InitFrame /\ [][Next]_vars

\* profile updates of user1 for itself and for user2, one request at a time
InitOwnership == InitStore /\ profile = Profile("ownership", "accounts")
SpecOwnership == InitOwnership /\ [][Next]_vars

\* events are created and listed while other requests are in flight
InitRoundTrip == InitStore /\ profile = Profile("roundtrip", "events")
SpecRoundTrip == InitRoundTrip /\ [][Next]_vars

\* the lists are read, one request at a time, from a store in which any of
\* the seeded threads, events, resources and alerts may be missing
InitLists ==
    /\ users = SeedUsers
    /\ user_dashboards = SeedDashboards
    /\ impact_calculators = SeedCalculators
    /\ eco_community_forum \in SUBSET SeedForum
    /\ events \in SUBSET SeedEvents
    /\ resource_library \in SUBSET SeedResources
    /\ alerts \in SUBSET SeedAlerts
    /\ reqs = [i \in Slots |-> IdleRequest]
    /\ uuids = 0
    /\ now = 0
    /\ profile = Profile("lists", "resources")
SpecLists == InitLists /\ [][Next]_vars

\* searches for users and registrations, one request at a time
InitSearch == InitStore /\ profile = Profile("search", "accounts")
SpecSearch == InitSearch /\ [][Next]_vars

\* forum threads and alerts created with and without created_at, one
\* request at a time
InitStamps == InitStore /\ profile = Profile("stamps", "forum")
SpecStamps == InitStamps /\ [][Next]_vars

\* a registration and reads of impact calculators sent while others are in
\* flight
InitCalculator == InitStore /\ profile = Profile("calculator", "dashboard")
SpecCalculator == InitCalculator /\ [][Next]_vars

(***************************************************************************)
(* The server with a store that may fail: a pool.connect() or a            *)
(* client.query() may reject instead of resolving.                         *)
(***************************************************************************)
\* the guard's pool.connect() rejects
GuardConnectFails(i) ==
    /\ reqs[i].pc = "g_connect"
    /\ reqs' = [reqs EXCEPT ![i] = GuardCatch(@, now)]
    /\ UNCHANGED <<tables, uuids, now, profile>>

\* the guard's SELECT rejects
GuardQueryFails(i) ==
    /\ reqs[i].pc = "g_query"
    /\ reqs' = [reqs EXCEPT ![i] = GuardCatch(@, now)]
    /\ UNCHANGED <<tables, uuids, now, profile>>

\* the handler's pool.connect() rejects
HandlerConnectFails(i) ==
    /\ reqs[i].pc = "h_connect"
    /\ reqs' = [reqs EXCEPT ![i] = InternalServerError(@, now)]
    /\ UNCHANGED <<tables, uuids, now, profile>>

\* the handler's next statement rejects
HandlerQueryFails(i) ==
    /\ reqs[i].pc = "h_query"
    /\ reqs' = [reqs EXCEPT ![i] = InternalServerError(Ran(@), now)]
    /\ UNCHANGED <<tables, uuids, now, profile>>

NextFaulty ==
    \E i \in Slots :
        \/ Receive(i)
        \/ GuardConnect(i)
        \/ GuardQuery(i)
        \/ HandlerConnect(i)
        \/ HandlerQuery(i)
        \/ GuardConnectFails(i)
        \/ GuardQueryFails(i)
        \/ HandlerConnectFails(i)
        \/ HandlerQueryFails(i)

\* requests sent while others are in flight to a server in production or in
\* development mode whose store may fail
InitFaults ==
    /\ InitStore
    /\ profile \in {Profile("faults", mode) : mode \in {"production", "development"}}
SpecFaults == InitFaults /\ [][NextFaulty]_vars

\* creates and updates with valid and invalid bodies, one request at a time
InitWrites == InitStore /\ profile \in {Profile("writes", f) : f \in Families}
SpecWrites == InitWrites /\ [][Next]_vars

(***************************************************************************)
(* The server under a clock that advances, with clients that present the   *)
(* tokens the server issued to them.                                       *)
(***************************************************************************)
\* the token a client holds after the request r: the one a registration or a
\* login answered, or the one it presented
Held(r) ==
    IF r.handler = "register" /\ r.res.status = 201 THEN {r.res.data.token[2]}
    ELSE IF r.handler = "login" /\ r.res.status = 200 THEN {r.res.data.auth_token[2]}
    ELSE IF HasToken(r.auth) THEN {r.auth.token}
    ELSE {}

\* a day passes
Tick ==
    /\ now < MaxNow
    /\ now' = now + 1
    /\ UNCHANGED <<tables, reqs, uuids, profile>>

\* the client whose request was answered sends a request with its token
Present(i) ==
    /\ reqs[i].pc = "done"
    /\ \A j \in 1..(i - 1) : InFlight(reqs[j])
    /\ Cardinality({j \in Slots : InFlight(reqs[j])}) < InFlightLimit(profile)
    /\ \E token \in Held(reqs[i]) : \E q \in Presented(token) :
          reqs' = [reqs EXCEPT ![i] = Arrive(q, DB, now)]
    /\ UNCHANGED <<tables, uuids, now, profile>>

NextClock ==
    \/ Tick
    \/ \E i \in Slots :
        \/ Receive(i)
        \/ Present(i)
        \/ GuardConnect(i)
        \/ GuardQuery(i)
        \/ HandlerConnect(i)
        \/ HandlerQuery(i)

\* registrations and dashboard requests, one request at a time, with a store
\* that may fail
InitOrphan == InitStore /\ profile = Profile("orphan", "accounts")
SpecOrphan == InitOrphan /\ [][NextFaulty]_vars

\* a registration, a login and requests with their tokens, one request at a
\* time, over MaxNow days
InitClock == InitStore /\ profile = Profile("clock", "accounts")
SpecClock == InitClock /\ [][NextClock]_vars

\* the requests of a family under the tokens of two users, one request at a
\* time
InitTwins == InitStore /\ profile \in {Profile("twins", f) : f \in Families}
SpecTwins == InitTwins /\ [][Next]_vars

(***************************************************************************)
(* The server with a small pool, every storage call returning: a statement *)
(* that is awaited runs, and pg's pool serves its waiters first come first *)
(* served, so a waiter that can be served again and again is served.       *)
(***************************************************************************)
InitPool ==
    /\ InitStore
    /\ profile \in {Profile("pool", "dashboard") @@ [pool |-> n] : n \in 1..MaxPool}
Fairness ==
    \A i \in Slots :
        /\ SF_vars(GuardConnect(i))
        /\ WF_vars(GuardQuery(i))
        /\ SF_vars(HandlerConnect(i))
        /\ WF_vars(HandlerQuery(i))
SpecPool == InitPool /\ [][Next]_vars /\ Fairness

\* a registration, logins and changes of the registered user's email and
\* credential, one request at a time
InitCredentials == InitStore /\ profile = Profile("credentials", "accounts")
NextCredentials ==
    \E i \in Slots :
        \/ Receive(i)
        \/ Present(i)
        \/ GuardConnect(i)
        \/ GuardQuery(i)
        \/ HandlerConnect(i)
        \/ HandlerQuery(i)
SpecCredentials == InitCredentials /\ [][NextCredentials]_vars

(***************************************************************************)
(* Properties of the auth guard.                                           *)
(***************************************************************************)
Finished(i) == reqs[i].pc = "done"
GuardPassed == <<"TokenPresent", "TokenVerified", "UserResolved">>

\* the route a request is meant for: the one registered for exactly its
\* path, else the one Express finds
OwnRoute(r) ==
    IF \E k \in 1..Len(routes) : routes[k].method = r.method /\ routes[k].pattern = r.path
    THEN CHOOSE k \in 1..Len(routes) : routes[k].method = r.method /\ routes[k].pattern = r.path
    ELSE Dispatch(r.method, r.path)

\* a request for a registered route that carries the guard
ForProtectedRoute(r) == OwnRoute(r) /= 0 /\ routes[OwnRoute(r)].guard

SuccessStatus(handler) == IF handler \in CreateHandlers THEN 201 ELSE 200

\* C1 (as claimed): on every protected route a request without an
\* Authorization header is answered 401 and its handler runs no statement,
\* and the same request with a valid token of an existing user passes the
\* guard, reaches the route's handler and is answered with its success status.
C1_ProtectedRoutes ==
    \A i \in Slots :
        (Finished(i) /\ profile.kind = "guard" /\ ForProtectedRoute(reqs[i])) =>
            /\ reqs[i].auth = NoAuthorization =>
                  /\ reqs[i].res.status = 401
                  /\ reqs[i].queries = 0
                  /\ ~reqs[i].entered
            /\ reqs[i].auth = Bearer(ValidToken) =>
                  /\ reqs[i].stage = GuardPassed
                  /\ reqs[i].handler = routes[OwnRoute(reqs[i])].handler
                  /\ reqs[i].res.status = SuccessStatus(reqs[i].handler)

\* C2 (as claimed): a token that fails verification is rejected with 401,
\* the status of a missing token, and the handler is not run.
C2_InvalidTokenIs401 ==
    \A i \in Slots :
        (Finished(i) /\ ForProtectedRoute(reqs[i]) /\ HasToken(reqs[i].auth)
            /\ ~Verify(reqs[i].auth.token, now)) =>
            /\ reqs[i].res.status = 401
            /\ reqs[i].res.error_code = "AUTH_TOKEN_INVALID"
            /\ ~reqs[i].entered

\* C2 (amended): a token that fails signature or expiry verification is
\* rejected with 403 AUTH_TOKEN_INVALID and the handler is not run, while a
\* missing token is rejected with 401 AUTH_TOKEN_MISSING.
C2_InvalidTokenIs403 ==
    \A i \in Slots :
        (Finished(i) /\ ForProtectedRoute(reqs[i])) =>
            /\ (HasToken(reqs[i].auth) /\ ~(reqs[i].auth.token.sig = JWT_SECRET
                                            /\ now < reqs[i].auth.token.exp)) =>
                  /\ reqs[i].res.status = 403
                  /\ reqs[i].res.error_code = "AUTH_TOKEN_INVALID"
                  /\ ~reqs[i].entered
                  /\ reqs[i].queries = 0
            /\ ~HasToken(reqs[i].auth) =>
                  /\ reqs[i].res.status = 401
                  /\ reqs[i].res.error_code = "AUTH_TOKEN_MISSING"

\* a request with an expired token has been rejected
C2_Witness ==
    \E i \in Slots :
        /\ Finished(i)
        /\ ForProtectedRoute(reqs[i])
        /\ reqs[i].auth = Bearer(ExpiredToken)
        /\ reqs[i].res.status = 403

\* C3: a handler other than register and login is entered, holds a
\* connection or has run a statement only after the guard went through token
\* present, token verified and user resolved, in that order, for the same
\* request; every route but register, login and health carries the guard,
\* and health runs no statement.
C3_GuardBeforeHandler ==
    /\ \A i \in Slots :
          (reqs[i].handler \notin {"", "register", "login", "health"}
              /\ (reqs[i].entered \/ reqs[i].hconn \/ reqs[i].queries > 0
                    \/ reqs[i].pc \in {"h_connect", "h_query"})) =>
                reqs[i].stage = GuardPassed
    /\ \A i \in Slots : reqs[i].handler = "health" => reqs[i].queries = 0
    /\ \A k \in 1..Len(routes) :
          routes[k].handler \notin {"register", "login", "health"} => routes[k].guard

\* a guarded handler has run a statement and answered
C3_Witness ==
    \E i \in Slots :
        /\ Finished(i)
        /\ reqs[i].handler = "updateEvent"
        /\ reqs[i].queries > 0
        /\ reqs[i].res.status = 200
        /\ reqs[i].stage = GuardPassed

(***************************************************************************)
(* Properties of registration, login and the users table.                  *)
(***************************************************************************)
\* one request at a time: the users table as it was when the request in
\* slot i arrived (a registration adds at most the row it holds in r.local,
\* a login or a read adds none)
UsersBefore(i) ==
    IF "user" \in DOMAIN reqs[i].local THEN users \ {reqs[i].local.user} ELSE users

RegistrationDone(i) ==
    /\ Finished(i)
    /\ reqs[i].handler = "register"
    /\ ParseOk(createUserInputSchema, reqs[i].body)

\* C4 (as claimed): a registration with a schema-valid body whose email is
\* the email of no stored user is answered 201 with an id and the submitted
\* email, and has added exactly one user row.
C4_RegisterNewEmail ==
    \A i \in Slots :
        (profile.kind = "session" /\ RegistrationDone(i)
            /\ Select(UsersBefore(i), "email", reqs[i].body.email) = {}) =>
            /\ reqs[i].res.status = 201
            /\ "id" \in DOMAIN reqs[i].res.data
            /\ "email" \in DOMAIN reqs[i].res.data
            /\ reqs[i].res.data.email = reqs[i].body.email
            /\ Cardinality(users) = Cardinality(UsersBefore(i)) + 1

\* C5 (as claimed): a registration whose email, lower-cased and trimmed, is
\* the stored email of a user is answered 400 USER_ALREADY_EXISTS after the
\* lookup alone, no INSERT having run, and one row has that email.
C5_DuplicateRejected ==
    \A i \in Slots :
        (profile.kind = "session" /\ RegistrationDone(i)
            /\ Select(UsersBefore(i), "email",
                      Str(Trim(ToLowerCase(reqs[i].body.email[2])))) /= {}) =>
            /\ reqs[i].res.status = 400
            /\ reqs[i].res.error_code = "USER_ALREADY_EXISTS"
            /\ reqs[i].queries = 1
            /\ Cardinality(Select(users, "email",
                      Str(Trim(ToLowerCase(reqs[i].body.email[2]))))) = 1

\* C6: no two rows of users have the same email, and every stored email is
\* its own lower-cased and trimmed form.
C6_EmailsUniqueNormalised ==
    /\ \A a, b \in users : a.email = b.email => a = b
    /\ \A a \in users : a.email = Str(Trim(ToLowerCase(a.email[2])))

\* registrations and an email change have written while another request was
\* in flight, and one of them was refused by the UNIQUE constraint
C6_Witness ==
    /\ profile.kind = "race"
    /\ Cardinality(users) > Cardinality(SeedUsers)
    /\ \E a \in users : a.id = Str(user1) /\ a.email /= Str(john)
    /\ \E i \in Slots : Finished(i) /\ reqs[i].res.status = 500

LoginDone(i) == Finished(i) /\ reqs[i].handler = "login"
Supplied(body) == Given(body, "email") /\ Given(body, "password_hash")
\* the stored users with the submitted email, lower-cased and trimmed, and
\* the submitted credential
Matching(body) ==
    {x \in users :
        /\ IsStr(body.email)
        /\ x.email = Str(Trim(ToLowerCase(body.email[2])))
        /\ x.password_hash = body.password_hash}

\* C7 (as claimed): login answers 200 with a non-empty auth_token and the
\* user_id of the matching user exactly when a stored user has the submitted
\* email, lower-cased and trimmed, and the submitted credential; when both
\* fields are supplied and no such user exists it answers the one 401
\* INVALID_CREDENTIALS body; it runs one SELECT and the users table is as it
\* was.
C7_Login ==
    \A i \in Slots :
        (profile.kind = "session" /\ LoginDone(i)) =>
            /\ (Supplied(reqs[i].body) /\ Matching(reqs[i].body) /= {}) <=>
                  /\ reqs[i].res.status = 200
                  /\ "auth_token" \in DOMAIN reqs[i].res.data
                  /\ reqs[i].res.data.auth_token[2].sig /= ""
                  /\ \E x \in Matching(reqs[i].body) : reqs[i].res.data.user_id = x.id
            /\ (Supplied(reqs[i].body) /\ Matching(reqs[i].body) = {}) =>
                  reqs[i].res = createErrorResponse(401, "Invalid email or password",
                                                    FALSE, "INVALID_CREDENTIALS", now)
            /\ reqs[i].queries <= 1
            /\ users = UsersBefore(i)

\* the row register provisions for a user id
ZeroDashboard(id) ==
    [user_id |-> id, carbon_footprint |-> Numeric(0), historical_data |-> Null,
     daily_tips |-> Null, challenges |-> Null]

\* a registration has answered 201 for the user id
Registered(id) ==
    \E j \in Slots :
        /\ Finished(j)
        /\ reqs[j].handler = "register"
        /\ reqs[j].res.status = 201
        /\ reqs[j].res.data.id = id

\* C8: in the step in which register answers 201 for a user, the dashboard
\* row of that user's id is in user_dashboards with carbon_footprint 0 and
\* null historical_data, daily_tips and challenges; and a GET
\* /api/dashboard/:user_id whose SELECT runs after that answer is answered
\* 200 with that row.
C8_DashboardProvisioned ==
    [][\A i \in Slots :
          /\ (reqs[i].pc /= "done" /\ reqs'[i].pc = "done"
                /\ reqs'[i].handler = "register" /\ reqs'[i].res.status = 201) =>
                ZeroDashboard(reqs'[i].res.data.id) \in user_dashboards'
          /\ (reqs[i].pc = "h_query" /\ reqs[i].handler = "getDashboard"
                /\ reqs'[i].pc = "done" /\ Registered(reqs[i].param)) =>
                /\ reqs'[i].res.status = 200
                /\ reqs'[i].res.data = DashboardBody(ZeroDashboard(reqs[i].param))
                /\ reqs'[i].res.data.carbon_footprint = Num(0)]_vars

\* a registration was answered 201 and a read of its user's dashboard 200
C8_Witness ==
    \E i, j \in Slots :
        /\ Registered(reqs[i].param)
        /\ Finished(i)
        /\ reqs[i].handler = "getDashboard"
        /\ reqs[i].res.status = 200
        /\ reqs[j].res.status = 201
        /\ reqs[j].res.data.id = reqs[i].param
        /\ ZeroDashboard(reqs[i].param) \in user_dashboards

(***************************************************************************)
(* Properties of the update handlers.                                      *)
(***************************************************************************)
\* an update request that passed the guard and has been answered
UpdateDone(i) ==
    /\ Finished(i)
    /\ reqs[i].handler \in UpdateHandlers
    /\ reqs[i].stage = GuardPassed

\* the fields an update handler can change
Updatable(handler) == UpdateRouteOf(handler).truthy \cup UpdateRouteOf(handler).defined

\* C9 (as claimed): on every update endpoint an authenticated request whose
\* body holds no field the endpoint recognises is answered 400
\* NO_UPDATE_FIELDS and no statement has run on the store.
C9_NoUpdateFields ==
    \A i \in Slots :
        (UpdateDone(i)
            /\ DOMAIN reqs[i].body \cap DOMAIN UpdateRouteOf(reqs[i].handler).schema = {}) =>
            /\ reqs[i].res.status = 400
            /\ reqs[i].res.error_code = "NO_UPDATE_FIELDS"
            /\ reqs[i].queries = 0

\* C10 (as claimed): an authenticated update of an existing record whose
\* body holds some of the updatable fields and neither id nor user_id passes
\* validation and is answered 200 with the record carrying the new values.
C10_PartialUpdate ==
    \A i \in Slots :
        (UpdateDone(i)
            /\ DOMAIN reqs[i].body /= {}
            /\ DOMAIN reqs[i].body \subseteq
                    Updatable(reqs[i].handler) \ {"id", "user_id"}
            /\ Select(DB[UpdateRouteOf(reqs[i].handler).table],
                      UpdateRouteOf(reqs[i].handler).key, reqs[i].param) /= {}) =>
            /\ reqs[i].res.status = 200
            /\ \A f \in DOMAIN reqs[i].body :
                  reqs[i].res.data[f] \in
                      {UpdateValue(UpdateRouteOf(reqs[i].handler).table, f, reqs[i].body[f]),
                       ParseFloat(UpdateValue(UpdateRouteOf(reqs[i].handler).table, f,
                                              reqs[i].body[f]))}

\* an update handler's UPDATE runs in this step and is answered 200
UpdateSucceeds(i) ==
    /\ reqs[i].pc = "h_query"
    /\ reqs[i].handler \in UpdateHandlers
    /\ reqs'[i].pc = "done"
    /\ reqs'[i].res.status = 200

\* the record as the 200 body carries it: NUMERIC columns read with parseFloat
Carried(table, row) == IF table = "user_dashboards" THEN DashboardBody(row) ELSE row

\* C11 (as claimed): a successful update gives every attribute of the record
\* that the body supplies the supplied value, leaves the record's other
\* attributes, the other records of the table and the other tables as they
\* were, and answers the full record as stored after the update.
C11_UpdateFrame ==
    [][\A i \in Slots : UpdateSucceeds(i) =>
          LET route == UpdateRouteOf(reqs[i].handler)
              before == DB[route.table]
              after == DB'[route.table]
          IN /\ \A t \in DOMAIN DB \ {route.table} : DB'[t] = DB[t]
             /\ \E old \in before, new \in after :
                   /\ old[route.key] = reqs[i].param
                   /\ new[route.key] = reqs[i].param
                   /\ after = (before \ {old}) \cup {new}
                   /\ \A c \in DOMAIN old :
                         new[c] = IF c \in DOMAIN reqs[i].body
                                  THEN UpdateValue(route.table, c, reqs[i].body[c])
                                  ELSE old[c]
                   /\ reqs'[i].res.data = Carried(route.table, new)]_vars

(***************************************************************************)
(* Properties of the profile update.                                       *)
(***************************************************************************)
ProfileUpdateDone(i) ==
    /\ Finished(i)
    /\ reqs[i].handler = "updateUser"
    /\ reqs[i].stage = GuardPassed

\* the row of users with the id
UserRow(rows, id) == Select(rows, "id", id)

\* C12 (as claimed): a profile update with a valid token is answered 200 when
\* the token's user is the target and the body supplies one of email, name,
\* password_hash; it is answered 403 FORBIDDEN, with no statement run, when
\* the token's user is not the target, whatever the body; and a step changes
\* a row of users only if it is a step of a request authenticated as that
\* row's user.
C12_OwnProfileOnly ==
    /\ [](\A i \in Slots : ProfileUpdateDone(i) =>
            /\ (reqs[i].user.id = reqs[i].param
                  /\ DOMAIN reqs[i].body \cap {"email", "name", "password_hash"} /= {}) =>
                  reqs[i].res.status = 200
            /\ reqs[i].user.id /= reqs[i].param =>
                  /\ reqs[i].res.status = 403
                  /\ reqs[i].res.error_code = "FORBIDDEN"
                  /\ reqs[i].queries = 0)
    /\ [][\A x \in users :
            UserRow(users', x.id) /= {x} =>
                \E i \in Slots : /\ reqs[i].pc = "h_query"
                                 /\ reqs'[i] /= reqs[i]
                                 /\ reqs[i].handler = "updateUser"
                                 /\ reqs[i].user.id = x.id]_vars

(***************************************************************************)
(* Properties of the events routes.                                        *)
(***************************************************************************)
\* the create request in slot j has been answered 201
EventCreated(j) ==
    /\ Finished(j)
    /\ reqs[j].handler = "createEvent"
    /\ reqs[j].res.status = 201

\* the list of events is read in this step by the request in slot i
EventsRead(i) ==
    /\ reqs[i].pc = "h_query"
    /\ reqs[i].handler = "getEvents"
    /\ reqs'[i].pc = "done"

\* the elements of a sequence
Range(seq) == {seq[k] : k \in 1..Len(seq)}

\* C13 (as claimed): a read of the events after a create was answered 201
\* returns the event with the id of the create response and with event_name,
\* event_date, location and organizer_id identical to the submitted values.
C13_RoundTripIdentical ==
    [][\A i, j \in Slots : (EventsRead(i) /\ EventCreated(j)) =>
          /\ reqs'[i].res.status = 200
          /\ \E e \in Range(reqs'[i].res.data) :
                /\ e.id = reqs[j].res.data.id
                /\ \A f \in {"event_name", "event_date", "location", "organizer_id"} :
                      e[f] = reqs[j].body[f]]_vars

\* C13 (amended): the event read has the id of the create response, the
\* submitted event_name, location and organizer_id, and as event_date the
\* submitted date as a full timestamp: a date-only date gains its time part,
\* a full timestamp is kept; the event read is the body of the 201 response.
C13_RoundTripTimestamp ==
    [][\A i, j \in Slots : (EventsRead(i) /\ EventCreated(j)) =>
          /\ reqs'[i].res.status = 200
          /\ \E e \in Range(reqs'[i].res.data) :
                /\ e.id = reqs[j].res.data.id
                /\ e = reqs[j].res.data
                /\ \A f \in {"event_name", "location", "organizer_id"} :
                      e[f] = reqs[j].body[f]
                /\ e.event_date =
                      IF IsIso(reqs[j].body.event_date[2]) THEN reqs[j].body.event_date
                      ELSE Str(reqs[j].body.event_date[2] \o <<"T", "Z">>)]_vars

\* an event created with a date-only date has been read back
C13_Witness ==
    \E i, j \in Slots :
        /\ EventCreated(j)
        /\ ~IsIso(reqs[j].body.event_date[2])
        /\ Finished(i)
        /\ reqs[i].handler = "getEvents"
        /\ reqs[i].res.status = 200
        /\ reqs[j].res.data \in Range(reqs[i].res.data)

\* an authenticated DELETE /api/events/:id has been answered
DeleteEventDone(i) ==
    /\ Finished(i)
    /\ reqs[i].method = "DELETE"
    /\ Len(reqs[i].path) = 3
    /\ SubSeq(reqs[i].path, 1, 2) = <<"api", "events">>
    /\ reqs[i].auth = Bearer(ValidToken)

\* C14 (as claimed): an authenticated DELETE /api/events/:id for an event of
\* the store is answered 200 and the event is no longer in events, so that no
\* later read returns it.
C14_DeleteRemoves ==
    \A i \in Slots :
        (DeleteEventDone(i) /\ Select(SeedEvents, "id", Str(<<reqs[i].path[3]>>)) /= {}) =>
            /\ reqs[i].res.status = 200
            /\ Select(events, "id", Str(<<reqs[i].path[3]>>)) = {}

(***************************************************************************)
(* Properties of the list routes.                                          *)
(***************************************************************************)
\* an authenticated list request has been answered
ListDone(i) ==
    /\ Finished(i)
    /\ reqs[i].handler \in ListHandlers
    /\ reqs[i].stage = GuardPassed

\* C15: an authenticated list request is answered 200 with the sequence of
\* the matching rows, each once, and with the empty sequence when no row
\* matches; it is never answered with an error status.
C15_ListsNeverFail ==
    \A i \in Slots :
        (profile.kind = "lists" /\ ListDone(i)) =>
            /\ reqs[i].res.status = 200
            /\ ~reqs[i].res.error
            /\ Range(reqs[i].res.data) = Listed(reqs[i], DB)
            /\ Len(reqs[i].res.data) = Cardinality(Listed(reqs[i], DB))
            /\ Listed(reqs[i], DB) = {} => reqs[i].res.data = << >>

\* the resources were listed while the table was empty
C15_Witness ==
    \E i \in Slots :
        /\ ListDone(i)
        /\ reqs[i].handler = "getResources"
        /\ resource_library = {}
        /\ reqs[i].res.status = 200
        /\ reqs[i].res.data = << >>

(***************************************************************************)
(* Properties of the user search.                                          *)
(***************************************************************************)
\* C16 (as claimed): an authenticated GET /api/users/search is handled by
\* the search handler and answered 200 with the users whose name or email
\* contains the query, in the requested order, cut to limit and offset (all
\* users, newest first, at most 10, when the query string is empty); it is
\* never answered 404.
C16_SearchUsers ==
    \A i \in Slots :
        (Finished(i) /\ reqs[i].method = "GET"
            /\ reqs[i].path = <<"api", "users", "search">>
            /\ reqs[i].stage = GuardPassed) =>
            /\ reqs[i].handler = "searchUsers"
            /\ reqs[i].res.status = 200
            /\ reqs[i].res.data = Found(users, SearchQuery(reqs[i].query))

(***************************************************************************)
(* Properties of the creation timestamp.                                   *)
(***************************************************************************)
\* a forum thread or an alert was asked for by the request in slot i, the
\* guard let it through, and it has been answered
StampedCreateDone(i) ==
    /\ Finished(i)
    /\ reqs[i].handler \in {"createForumThread", "createAlert"}
    /\ reqs[i].stage = GuardPassed

\* C17 (as claimed): creating a forum thread or an alert with an otherwise
\* valid body that omits created_at answers 201 with a generated identifier
\* and a server-assigned creation timestamp; a created_at that the body
\* supplies is stored as given.
C17_CreationTimestamp ==
    \A i \in Slots :
        StampedCreateDone(i) =>
            /\ reqs[i].res.status = 201
            /\ \E k \in 1..Len(UuidPool) : reqs[i].res.data.id = Str(UuidPool[k])
            /\ IF Has(reqs[i].body, "created_at")
               THEN reqs[i].res.data.created_at = reqs[i].body.created_at
               ELSE \E t \in 0..9 : reqs[i].res.data.created_at = Str(NowISOString(t))

(***************************************************************************)
(* Properties of the impact calculator.                                    *)
(***************************************************************************)
\* the calculator row the read of a user without one inserts
EmptyCalculator(id, user_id) ==
    [id |-> id, user_id |-> user_id, travel_habits |-> Null,
     energy_consumption |-> Null, waste_management |-> Null]

\* in this step the read of the calculator of an existing user, sent by the
\* request in slot i, is answered
CalculatorRead(i) ==
    /\ reqs[i].pc = "h_query"
    /\ reqs[i].handler = "getImpactCalculator"
    /\ reqs'[i].pc = "done"
    /\ \E x \in users : x.id = reqs[i].param

\* C18 (as claimed): an authenticated GET /api/impact-calculator/:user_id is
\* never answered 404; for a user without a calculator row it inserts one
\* row with null travel_habits, energy_consumption and waste_management and
\* answers 200 with it; for a user that has a row it inserts nothing and
\* answers 200 with that row.
C18_CalculatorAutoCreate ==
    [][\A i \in Slots :
          CalculatorRead(i) =>
            LET before == Select(impact_calculators, "user_id", reqs[i].param)
                after == Select(impact_calculators', "user_id", reqs[i].param)
            IN /\ reqs'[i].res.status = 200
               /\ IF before = {}
                  THEN /\ after = {reqs'[i].res.data}
                       /\ reqs'[i].res.data =
                            EmptyCalculator(reqs'[i].res.data.id, reqs[i].param)
                  ELSE /\ impact_calculators' = impact_calculators
                       /\ before = {reqs'[i].res.data}]_vars

(***************************************************************************)
(* Properties of the pool connections and of storage failures.             *)
(***************************************************************************)
\* C19: a request that is answered holds no connection, the guard's or the
\* handler's, whether it ended in a success, an early 4xx or a thrown storage
\* error, so with every request answered no connection is checked out; the
\* guard's connection is released in the step of the guard's SELECT and the
\* handler's in the step that answers, and in no other step.
C19_ConnectionsReleased ==
    /\ [](/\ \A i \in Slots : ~InFlight(reqs[i]) => ~reqs[i].gconn /\ ~reqs[i].hconn
          /\ (\A i \in Slots : ~InFlight(reqs[i])) => CheckedOut = 0)
    /\ [][\A i \in Slots :
            /\ (reqs[i].gconn /\ ~reqs'[i].gconn) => reqs[i].pc = "g_query"
            /\ (reqs[i].hconn /\ ~reqs'[i].hconn) =>
                  reqs[i].pc = "h_query" /\ reqs'[i].pc = "done"]_vars

\* every request is answered, one after a statement of its handler threw and
\* another with a 4xx while its handler held a connection
C19_Witness ==
    /\ \A i \in Slots : Finished(i)
    /\ CheckedOut = 0
    /\ \E i, j \in Slots :
          /\ reqs[i].res.status = 500 /\ reqs[i].queries >= 1
          /\ reqs[j].res.status \in {400, 404} /\ reqs[j].queries >= 1

\* C20 (as claimed): a request in which a pool.connect() or a client.query()
\* rejects, in the guard or in the handler, is answered 500
\* INTERNAL_SERVER_ERROR, with error details exactly when the server runs in
\* development mode.
C20_FailuresAnswered500 ==
    [][\A i \in Slots :
          (\/ GuardConnectFails(i) \/ GuardQueryFails(i)
           \/ HandlerConnectFails(i) \/ HandlerQueryFails(i)) =>
            /\ reqs'[i].res.status = 500
            /\ reqs'[i].res.error_code = "INTERNAL_SERVER_ERROR"
            /\ reqs'[i].res.details = (NODE_ENV = "development")]_vars

(***************************************************************************)
(* Properties of validation.                                               *)
(***************************************************************************)
\* the schema the handler of a create or an update parses its body with
BodySchema(handler) ==
    IF handler = "register" THEN createUserInputSchema
    ELSE IF handler \in CreateHandlers THEN CreateSchemaOf(handler)
    ELSE UpdateRouteOf(handler).schema

\* the request r is a create or an update whose body fails its schema
InvalidWrite(r) ==
    /\ r.handler \in CreateHandlers \cup UpdateHandlers \cup {"register"}
    /\ ~ParseOk(BodySchema(r.handler), r.body)

\* C21: no step of a create or update request whose body fails schema
\* validation changes a row of any table, and when the request reaches its
\* handler (register, or past the guard) it is answered 400 VALIDATION_ERROR.
C21_InvalidWriteHasNoEffect ==
    [][\A i \in Slots :
          (reqs'[i] /= reqs[i] /\ InvalidWrite(reqs'[i])) =>
            /\ UNCHANGED tables
            /\ (reqs'[i].pc = "done"
                  /\ (reqs'[i].handler = "register" \/ reqs'[i].stage = GuardPassed)) =>
                  /\ reqs'[i].res.status = 400
                  /\ reqs'[i].res.error_code = "VALIDATION_ERROR"]_vars

\* an invalid create was answered 400 after the store had been changed by a
\* valid one
C21_Witness ==
    \E i \in Slots :
        /\ Finished(i)
        /\ InvalidWrite(reqs[i])
        /\ reqs[i].handler \in CreateHandlers \cup {"register"}
        /\ reqs[i].res.status = 400
        /\ DB /= [users |-> SeedUsers, user_dashboards |-> SeedDashboards,
                  impact_calculators |-> SeedCalculators,
                  eco_community_forum |-> SeedForum, events |-> SeedEvents,
                  resource_library |-> SeedResources, alerts |-> SeedAlerts]

(***************************************************************************)
(* Properties of issued tokens.                                            *)
(***************************************************************************)
\* in this step the request in slot i is answered by register with 201 or by
\* login with 200
Issues(i) ==
    /\ reqs[i].pc /= "done"
    /\ reqs'[i].pc = "done"
    /\ Held(reqs'[i]) /= {}
    /\ reqs'[i].handler \in {"register", "login"}

\* the id of the user a registration or a login answered
AnsweredId(r) == IF r.handler = "register" THEN r.res.data.id ELSE r.res.data.user_id

\* C22: a token that register or login issues carries the id of the user it
\* was answered for and expires ExpiresIn days after the moment it was signed;
\* the guard verifies a presented token exactly while fewer than ExpiresIn
\* days have passed since it was signed, and answers 403 otherwise; and the
\* identity of a request that passed the guard is the users row of the id in
\* its token.
C22_TokenLifetime ==
    /\ [][\A i \in Slots :
            /\ Issues(i) =>
                  \A token \in Held(reqs'[i]) :
                      /\ token.user_id = AnsweredId(reqs'[i])
                      /\ token.iat <= now
                      /\ token.exp = token.iat + ExpiresIn
            /\ Present(i) =>
                  /\ ("TokenVerified" \in Range(reqs'[i].stage))
                        <=> (now - reqs'[i].auth.token.iat < ExpiresIn)
                  /\ (now - reqs'[i].auth.token.iat >= ExpiresIn) =>
                        reqs'[i].pc = "done" /\ reqs'[i].res.status = 403]_vars
    /\ [](\A i \in Slots :
            (profile.kind = "clock" /\ reqs[i].stage = GuardPassed) =>
                /\ reqs[i].user.id = reqs[i].auth.token.user_id
                /\ \E x \in users : x.id = reqs[i].user.id)

\* the token of a registration was accepted by the guard within its 7 days
\* and, in another state, rejected after them
C22_Witness ==
    \E i \in Slots :
        /\ Finished(i)
        /\ reqs[i].auth.token.user_id = Str(UuidPool[1])
        /\ reqs[i].res.status = 403
        /\ reqs[i].stage = <<"TokenPresent">>
        /\ now >= reqs[i].auth.token.iat + ExpiresIn

(***************************************************************************)
(* Properties of the error envelope.                                       *)
(***************************************************************************)
\* C23 (as claimed): the body of the 400 that answers a registration with a
\* registered email and of the 401 that answers a login with invalid
\* credentials has a property named error.
C23_ErrorProperty ==
    \A i \in Slots :
        (Finished(i)
            /\ \/ reqs[i].handler = "register" /\ reqs[i].res.error_code = "USER_ALREADY_EXISTS"
               \/ reqs[i].handler = "login" /\ reqs[i].res.status = 401) =>
            "error" \in BodyProperties(reqs[i].res)

(***************************************************************************)
(* Properties of a registration that stops half way.                       *)
(***************************************************************************)
\* the user id has a users row and no dashboard row, and no registration is
\* about to insert one
Orphan(id) ==
    /\ \E x \in users : x.id = id
    /\ Select(user_dashboards, "user_id", id) = {}
    /\ ~\E i \in Slots :
          /\ InFlight(reqs[i])
          /\ reqs[i].handler = "register"
          /\ reqs[i].step = 3
          /\ reqs[i].local.user.id = id

\* C24: a user whose registration stopped between its two INSERTs has no
\* dashboard row, and keeps having none whatever request runs: a read or an
\* update of that dashboard is answered 404, and a registration of that
\* user's email is never answered 201 (it is answered 400
\* USER_ALREADY_EXISTS when the email is sent as it is stored).
C24_OrphanUserStays ==
    [][/\ \A x \in users : Orphan(x.id) => Orphan(x.id)'
       /\ \A i \in Slots :
            /\ (HandlerQuery(i) /\ reqs[i].handler \in {"getDashboard", "updateDashboard"}
                  /\ Orphan(reqs[i].param)) =>
                  /\ reqs'[i].res.status = 404
                  /\ reqs'[i].res.error_code = "DASHBOARD_NOT_FOUND"
            /\ (HandlerQuery(i) /\ reqs[i].handler = "register" /\ reqs'[i].pc = "done") =>
                  \A x \in users :
                      (Orphan(x.id) /\ x.email = Str(StoredEmail(reqs[i].body.email[2]))) =>
                          /\ reqs'[i].res.status /= 201
                          /\ reqs[i].body.email = x.email =>
                                /\ reqs'[i].res.status = 400
                                /\ reqs'[i].res.error_code = "USER_ALREADY_EXISTS"]_vars

\* the dashboard of a user that has none was read and answered 404 after
\* another user had been registered
C24_Witness ==
    \E i \in Slots :
        /\ Finished(i)
        /\ reqs[i].handler = "getDashboard"
        /\ reqs[i].res.status = 404
        /\ Orphan(reqs[i].param)
        /\ Cardinality(users) = Cardinality(SeedUsers) + 2

(***************************************************************************)
(* Properties of the authenticated identity.                               *)
(***************************************************************************)
\* the same request task under a valid token of the other seeded user
TwinToken(token) ==
    IF token.user_id = Str(user1) THEN Sign(Str(user2), Str(jane), token.iat)
    ELSE Sign(Str(user1), Str(john), token.iat)
Twin(r) ==
    [r EXCEPT !.auth = Bearer(TwinToken(r.auth.token)),
              !.user = IF r.user = NoUser THEN NoUser
                       ELSE Project(RowOf(Select(users, "id", TwinToken(r.auth.token).user_id)),
                                    PublicUserColumns)]

\* a request task without the identity it carries
Anonymous(r) == [r EXCEPT !.auth = NoAuthorization, !.user = NoUser]

\* what the next continuation of the task r does in the present store
StepOf(r) ==
    CASE r.pc = "g_query" -> Step(authenticateToken(r, DB, now), DB)
      [] r.pc = "h_connect" -> Handle([r EXCEPT !.hconn = TRUE], DB, now, << >>)
      [] r.pc = "h_query" -> Handle(r, DB, now, UuidPool[uuids + 1])
      [] OTHER -> Step(r, DB)

\* C25: on every protected route other than PUT /api/users/:user_id, a
\* request with a valid token of one existing user and the same request with
\* a valid token of another are routed alike and, from the same store, every
\* continuation of the two (the guard's, the handler's) leaves the same store
\* and the same task but for the identity: same status, same body, same rows.
C25_IdentityIgnored ==
    /\ \A q \in Requests(profile) :
          (HasToken(q.auth) /\ Arrive(q, DB, now).handler \notin {"", "updateUser"}) =>
              Anonymous(Arrive(q, DB, now))
                = Anonymous(Arrive([q EXCEPT !.auth = Bearer(TwinToken(q.auth.token))], DB, now))
    /\ \A i \in Slots :
          (InFlight(reqs[i]) /\ HasToken(reqs[i].auth)
              /\ reqs[i].handler \notin {"", "updateUser"}) =>
              /\ StepOf(reqs[i]).db = StepOf(Twin(reqs[i])).db
              /\ StepOf(reqs[i]).drew = StepOf(Twin(reqs[i])).drew
              /\ Anonymous(StepOf(reqs[i]).r) = Anonymous(StepOf(Twin(reqs[i])).r)

\* user2 created an alert for user1, and listed the alerts of user1
C25_Witness ==
    \E i \in Slots :
        /\ Finished(i)
        /\ reqs[i].auth = Bearer(Token2)
        /\ reqs[i].handler = "getAlerts"
        /\ reqs[i].param = Str(user1)
        /\ reqs[i].res.status = 200
        /\ Cardinality(alerts) > Cardinality(SeedAlerts)

(***************************************************************************)
(* Properties of the set of users.                                         *)
(***************************************************************************)
\* C26: no step removes a users row or changes its id; a token that register
\* or login issued, presented before its expiry, is verified and its user is
\* found by the guard whatever requests ran since it was issued, changes of
\* that user's email and credential included; and no request with such a
\* token is answered AUTH_USER_NOT_FOUND.
C26_IssuedTokenStaysValid ==
    /\ [][/\ {x.id : x \in users} \subseteq {x.id : x \in users'}
          /\ \A i \in Slots :
                /\ (Present(i) /\ now < reqs'[i].auth.token.iat + ExpiresIn) =>
                      /\ reqs'[i].pc = "g_connect"
                      /\ reqs'[i].stage = <<"TokenPresent", "TokenVerified">>
                /\ (GuardQuery(i) /\ profile.kind = "clock") =>
                      reqs'[i].stage = GuardPassed]_vars
    /\ [](\A i \in Slots :
            profile.kind = "clock" => reqs[i].res.error_code /= "AUTH_USER_NOT_FOUND")

\* the token of a login of user1 passed the guard after the email of user1
\* had been changed
C26_Witness ==
    \E i \in Slots : \E x \in users :
        /\ Finished(i)
        /\ reqs[i].stage = GuardPassed
        /\ reqs[i].handler = "getDashboard"
        /\ reqs[i].res.status = 200
        /\ x.id = reqs[i].auth.token.user_id
        /\ x.email /= reqs[i].auth.token.email
        /\ reqs[i].auth.token.iat < now

(***************************************************************************)
(* Properties of concurrent reads of the impact calculator.                *)
(***************************************************************************)
\* C27 (as claimed): whatever the interleaving of the reads of the impact
\* calculator of one user, that user has at most one calculator row, and the
\* reads that were answered 200 for that user carry the same calculator id.
C27_OneCalculatorPerUser ==
    /\ \A x, y \in impact_calculators : x.user_id = y.user_id => x = y
    /\ \A i, j \in Slots :
          (Finished(i) /\ Finished(j)
              /\ reqs[i].handler = "getImpactCalculator"
              /\ reqs[j].handler = "getImpactCalculator"
              /\ reqs[i].param = reqs[j].param
              /\ reqs[i].res.status = 200 /\ reqs[j].res.status = 200) =>
              reqs[i].res.data.id = reqs[j].res.data.id

(***************************************************************************)
(* Properties of the pool.                                                 *)
(***************************************************************************)
\* C28: a request that waits for a connection holds none (the guard gives
\* its connection back in the step that starts the handler), never more than
\* the pool's size are checked out, a request that was answered is not
\* answered again, and every request in flight is eventually answered.
C28_NoHoldAndWait ==
    /\ [](/\ \A i \in Slots :
                reqs[i].pc \in {"g_connect", "h_connect"} =>
                    ~reqs[i].gconn /\ ~reqs[i].hconn
          /\ CheckedOut <= PoolLimit(profile))
    /\ [][\A i \in Slots :
            (Finished(i) /\ reqs'[i] /= reqs[i]) => reqs'[i].pc /= "done" \/ Receive(i)]_vars
    /\ \A i \in Slots : InFlight(reqs[i]) ~> Finished(i)

\* a request waits for a connection of a pool of size 1 that another
\* request holds
C28_Witness ==
    \E i, j \in Slots :
        /\ PoolLimit(profile) = 1
        /\ reqs[i].pc = "h_connect"
        /\ reqs[j].hconn
        /\ CheckedOut = PoolLimit(profile)

(***************************************************************************)
(* Properties of the credential.                                           *)
(***************************************************************************)
\* the body the request r was answered with has a property password_hash,
\* or one of the objects of the sequence it was answered with has
Discloses(r) ==
    /\ ~r.res.error
    /\ r.res.data /= << >>
    /\ IF r.handler \in ListHandlers \cup {"searchUsers"}
       THEN \E k \in 1..Len(r.res.data) : "password_hash" \in DOMAIN r.res.data[k]
       ELSE "password_hash" \in BodyProperties(r.res)

\* C29 (as claimed): no response body and no identity that the guard
\* attaches to a request has a property password_hash.
C29_NoPasswordHash ==
    \A i \in Slots :
        /\ Finished(i) => ~Discloses(reqs[i])
        /\ "password_hash" \notin DOMAIN reqs[i].user


(***************************************************************************)
(* Properties of the register, update and login round trip.                *)
(***************************************************************************)
\* the email and the credential the user of SpecCredentials registers with
RegisteredEmail == Str(ToLowerCase(upperNew))
RegisteredCredential == Registration(upperNew).password_hash

\* in this step the request in slot i is answered by the handler
Answers(i, handler) ==
    /\ reqs[i].pc /= "done"
    /\ reqs'[i].pc = "done"
    /\ reqs'[i].handler = handler

\* the email of a login, in lower case
Spelled(r) == Str(ToLowerCase(r.body.email[2]))

\* the login presents the email and the credential in force for the user x
InForce(r, x) == Spelled(r) = x.email /\ r.body.password_hash = x.password_hash

\* the login presents an email or a credential of the registered user x that
\* an update has replaced
Replaced(r, x) ==
    \/ x.email /= RegisteredEmail /\ Spelled(r) = RegisteredEmail
    \/ /\ x.password_hash /= RegisteredCredential
       /\ r.body.password_hash = RegisteredCredential
       /\ Spelled(r) = x.email

\* what register and the profile update leave in users: the row the 201
\* announces holds the email in lower case and the credential as submitted,
\* and the row a 200 update announces holds the submitted values likewise
RoundTripStores(i) ==
    /\ (Answers(i, "register") /\ reqs'[i].res.status = 201) =>
          \E x \in users' :
              /\ x.id = reqs'[i].res.data.id
              /\ x.email = Spelled(reqs'[i])
              /\ x.password_hash = reqs'[i].body.password_hash
    /\ (Answers(i, "updateUser") /\ reqs'[i].res.status = 200) =>
          \E x \in users' : \E y \in users :
              /\ x.id = reqs'[i].body.id /\ y.id = x.id
              /\ x.email = (IF "email" \in DOMAIN reqs'[i].body
                            THEN Spelled(reqs'[i]) ELSE y.email)
              /\ x.password_hash = (IF "password_hash" \in DOMAIN reqs'[i].body
                                    THEN reqs'[i].body.password_hash
                                    ELSE y.password_hash)

\* only a registration adds a users row and only a profile update answered
\* 200 changes one
RoundTripFrame ==
    \/ users' = users
    \/ \E i \in Slots : reqs[i].handler \in {"register", "updateUser"}
                          /\ reqs[i].pc = "h_query"

====
